---- MODULE Spec2Model ----
(***************************************************************************)
(* Model of the streaming command executor of codegen-cloner               *)
(* (src/src/utils/streaming-exec.ts): one StreamingExecutor instance       *)
(* running execute().  The state is the instance's fields, the             *)
(* locals captured by the closures of execute(), the promise it returns,   *)
(* the timers it schedules, the terminal region it draws, and the child    *)
(* process with its two output streams.  Each action is one callback of    *)
(* the event loop, run to completion.  Further specifications below put   *)
(* the same callbacks under executeWithSpinner, under a request that sets  *)
(* options.maxLines, and under a second execute() of the same instance.    *)
(***************************************************************************)
EXTENDS Integers, Sequences, FiniteSets, TLC

(***************************************************************************)
(* Bounds of the model.                                                    *)
(***************************************************************************)
MaxLinesBound == 2      \* constructor argument maxLines ranges over 1..MaxLinesBound
MaxChunks == 2          \* data events delivered to one execution
StartTime == 1000       \* Date.now() when execute() is called
TickMs == 50            \* the clock is observed TickMs before each threshold and at it
MaxAdds == 5            \* addToBuffer calls in the buffer specification
MaxPairChunks == 1      \* data events delivered to each of two overlapping calls
MaxProjects == 3        \* project directories under the base directory
MaxStreamLen == 3       \* bytes the child writes in the chunking specification
MaxProbeMs == 1000      \* a probe command returns at once or after MaxProbeMs
MaxProbes == 100        \* probes one readiness poll can make in the model

(***************************************************************************)
(* Program constants.                                                      *)
(***************************************************************************)
DEFAULT_MAX_LINES == 10  \* constructor(maxLines: number = 10)
MAX_AGE_DAYS == 14       \* getOldProjects(this.baseDir, 14)
POLL_PAUSE_MS == 2000
DOCKER_TIMEOUT_MS == 120000
POSTGRES_TIMEOUT_MS == 180000
OVERALL_TIMEOUT_MS == 30000
GRACE_MS == 100
DISPLAY_THROTTLE_MS == 100
NULL == -1              \* exitCode === null (no exit code: ended by a signal)

Commands == {"pnpm"}
ArgLists == {<<>>, <<"run", "dev">>}
ExitCodes == {0, 2, NULL}

VARIABLES
  \* the request
  command, args, showOutput,
  \* fields of the StreamingExecutor instance
  outputBuffer, maxLines, currentSpinner,
  \* locals of execute() captured by its callbacks
  hasOutput, resolved, lastDisplayUpdate,
  stdoutEnded, stderrEnded, processExited, exitCode,
  \* timers: "armed", "fired" or "cleared" ("none" before the grace timer is set)
  overallTimeout, overallDeadline, graceTimer, graceDeadline,
  \* the promise returned by execute()
  outcome, settleCount, rejection, trace,
  \* the terminal
  drawn, foreignErased, redraws,
  \* the environment: clock, child process, its streams
  \* errorPending is the error the child is about to emit, or "none"
  now, spawned, childAlive, sigterm, errorPending, stdoutOpen, stderrOpen, chunks,
  \* history of the buffer specification: the lines handed to addToBuffer
  added,
  \* options.maxLines of the request, 0 when the caller omits it
  optMaxLines,
  \* executeWithSpinner: the ora spinner, the number of succeed/fail calls,
  \* the position of the wrapper and the error it throws
  spinner, spinnerCalls, wrapperPc, thrown,
  \* an earlier execute() of the same instance: execNo counts the calls, the
  \* prev* variables are the locals of the earlier call's processOutput
  \* closure and whether a stream of the earlier child is still open
  execNo, prevOpen, prevShowOutput, prevHasOutput, prevLastDisplayUpdate,
  \* overlapping executeWithStreaming calls: the executor each call has
  \* constructed, the fields of the executors, the closure and child of
  \* each call, whether a streaming region is on the shared terminal, and
  \* the call whose code ran last
  executorOf, heap, calls, screen, actor,
  \* the prune commands: the command run and its position, the project
  \* directories on disk and their age in days, the list the scan returned,
  \* the answers given to the prompts, the deleteProject calls made and
  \* whether each succeeded, and the two counters
  pruneMode, prunePc, disk, ageDays, listed, answers, pruneIndex, attempts, results,
  deletedCount, errorCount,
  \* the clone-and-setup workflow: the step run() is about to execute (or how
  \* it ended), the steps executed, the steps that failed, and what the
  \* steps look at: the project directory, Docker, the two environment files
  flowPc, flowLog, failures, projectExists, dockerInstalled, dockerRunning,
  envExample, envFile,
  \* one byte stream of the child delivered in chunks: the bytes, the place
  \* where the pipe cuts them in two, the number of chunks delivered
  stream, cut, fed,
  \* cloneRepository: its position (or how it ended), the git clone commands
  \* run, whether the target path exists, the error the primary sequence
  \* failed with, the error of the fallback and the error thrown
  clonePc, cloneLog, targetExists, firstError, fallbackError, cloneThrown,
  \* waitForDocker / waitForPostgres: the poll running and its position (or
  \* how it ended), Date.now(), startTime, the probes made and whether the
  \* last probe succeeded
  pollKind, pollPc, pollNow, pollStart, probes, probeOk

request == <<command, args, showOutput, optMaxLines>>
instance == <<outputBuffer, maxLines, currentSpinner>>
locals == <<hasOutput, resolved, lastDisplayUpdate, stdoutEnded, stderrEnded,
            processExited, exitCode>>
timers == <<overallTimeout, overallDeadline, graceTimer, graceDeadline>>
promise == <<outcome, settleCount, rejection, trace>>
terminal == <<drawn, foreignErased, redraws>>
env == <<now, spawned, childAlive, sigterm, errorPending, stdoutOpen, stderrOpen, chunks>>
wrapper == <<spinner, spinnerCalls, wrapperPc, thrown>>
earlier == <<execNo, prevOpen, prevShowOutput, prevHasOutput, prevLastDisplayUpdate>>
\* what lies outside the single executor of the specifications above
pair == <<executorOf, heap, calls, screen, actor>>
prune == <<pruneMode, prunePc, disk, ageDays, listed, answers, pruneIndex, attempts, results,
           deletedCount, errorCount>>
flow == <<flowPc, flowLog, failures, projectExists, dockerInstalled, dockerRunning,
          envExample, envFile>>
feed == <<stream, cut, fed>>
clone == <<clonePc, cloneLog, targetExists, firstError, fallbackError, cloneThrown>>
poll == <<pollKind, pollPc, pollNow, pollStart, probes, probeOk>>
utils == <<feed, clone, poll>>
outside == <<pair, prune, flow, utils>>
executor == <<request, instance, locals, timers, promise, terminal, env, added,
              wrapper, earlier>>
\* what the actions of one family leave alone
notPair == <<executor, prune, flow, utils>>
notPrune == <<executor, pair, flow, utils>>
notFlow == <<executor, pair, prune, utils>>
notClone == <<executor, pair, prune, flow, feed, poll>>
notPoll == <<executor, pair, prune, flow, feed, clone>>
vars == <<executor, outside>>

(***************************************************************************)
(* Pure helpers.                                                           *)
(***************************************************************************)
Min(a, b) == IF a <= b THEN a ELSE b
Max(a, b) == IF a >= b THEN a ELSE b

\* Mutant: the oldest line is dropped as soon as the buffer reaches its capacity
addToBuffer_EvictsAtCapacity(buf, line, cap) ==
  LET pushed == Append(buf, line)
  IN  IF Len(pushed) >= cap THEN Tail(pushed) ELSE pushed

\* outputBuffer.push(line); if (length > maxLines) outputBuffer.shift()
addToBuffer(buf, line, cap) ==
  LET pushed == Append(buf, line)
  IN  IF Len(pushed) > cap THEN Tail(pushed) ELSE pushed

RECURSIVE addAll(_, _, _)
\* lines.forEach(line => this.addToBuffer(...))
addAll(buf, lines, cap) ==
  IF lines = <<>> THEN buf
  ELSE addAll(addToBuffer(buf, Head(lines), cap), Tail(lines), cap)

RECURSIVE SplitLines(_, _)
\* data.toString().split('\n'): cur is the piece being read
SplitLines(s, cur) ==
  IF s = <<>> THEN <<cur>>
  ELSE IF Head(s) = "\n" THEN <<cur>> \o SplitLines(Tail(s), <<>>)
  ELSE SplitLines(Tail(s), Append(cur, Head(s)))

IsSpace(c) == c = " " \/ c = "\n"

RECURSIVE TrimLeft(_)
TrimLeft(s) ==
  IF s = <<>> THEN s
  ELSE IF IsSpace(Head(s)) THEN TrimLeft(Tail(s)) ELSE s

RECURSIVE TrimRight(_)
TrimRight(s) ==
  IF s = <<>> THEN s
  ELSE IF IsSpace(s[Len(s)]) THEN TrimRight(SubSeq(s, 1, Len(s) - 1)) ELSE s

\* String.prototype.trim
Trim(s) == TrimRight(TrimLeft(s))

RECURSIVE FilterNonBlank(_)
\* .filter(line => line.trim()): an empty string is falsy
FilterNonBlank(ls) ==
  IF ls = <<>> THEN <<>>
  ELSE IF Trim(Head(ls)) = <<>> THEN FilterNonBlank(Tail(ls))
  ELSE <<Head(ls)>> \o FilterNonBlank(Tail(ls))

\* the lines of one chunk, as processOutput hands them to addToBuffer
ChunkLines(data) ==
  LET kept == FilterNonBlank(SplitLines(data, <<>>))
  IN  [i \in 1..Len(kept) |-> Trim(kept[i])]

RECURSIVE JoinSpace(_)
\* args.join(' ')
JoinSpace(a) ==
  IF a = <<>> THEN <<>>
  ELSE IF Len(a) = 1 THEN a
  ELSE <<Head(a), " ">> \o JoinSpace(Tail(a))

\* `${command} ${args.join(' ')}`
CommandLine(c, a) == <<c, " ">> \o JoinSpace(a)

\* The data chunks a stream delivers: one line, another line, a blank line,
\* two lines in one chunk with the second one unterminated and padded
Chunks ==
  { <<"x", "\n">>, <<"y", "\n">>, <<" ", "\n">>, <<"x", "\n", " ", "y">> }


(***************************************************************************)
(* The promise and the error values.                                       *)
(***************************************************************************)
NoRejection ==
  [kind |-> "none", exitCode |-> NULL, output |-> <<>>, seconds |-> 0,
   cmdline |-> <<>>, cause |-> "none"]

\* Mutant: the message names the command without its arguments
TimeoutError_NoArgs(c, a) ==
  [kind |-> "timeout", exitCode |-> NULL, output |-> <<>>, seconds |-> 30,
   cmdline |-> <<c>>, cause |-> "none"]

\* new Error(`Command timed out after 30 seconds: ${command} ${args.join(' ')}`)
TimeoutError(c, a) ==
  [kind |-> "timeout", exitCode |-> NULL, output |-> <<>>, seconds |-> 30,
   cmdline |-> CommandLine(c, a), cause |-> "none"]

\* new Error(`Command failed with exit code ${exitCode}${errorOutput}`)
CommandFailedError(code, buf) ==
  [kind |-> "failed", exitCode |-> code, output |-> buf, seconds |-> 0,
   cmdline |-> <<>>, cause |-> "none"]

\* reject(error): the error object the child emitted
SpawnError(e) ==
  [kind |-> "error", exitCode |-> NULL, output |-> <<>>, seconds |-> 0,
   cmdline |-> <<>>, cause |-> e]

\* A call of resolve() or reject(): the first call settles the promise, a later
\* one leaves it as it is; settleCount counts the calls, trace the effects.
Settle(o, rej, effects) ==
  /\ outcome' = IF outcome = "Running" THEN o ELSE outcome
  /\ rejection' = IF outcome = "Running" THEN rej ELSE rejection
  /\ settleCount' = settleCount + 1
  /\ trace' = trace \o effects

(***************************************************************************)
(* The terminal: drawn is the number of lines of the executor's region     *)
(* that are on the screen; an erase of n lines that reaches above the      *)
(* region erases lines the executor did not draw.                          *)
(***************************************************************************)
\* process.stdout.write(`\u001B[${n}A`); process.stdout.write('\u001B[0J')
DrawnAfterErase(d, n) == Max(d - n, 0)
ErasesForeign(d, n) == n > d

\* clearDisplay(): the erase it performs on a buffer of len lines
ClearErase(len) == IF len > 0 THEN len + 1 ELSE 0

\* updateDisplay(): the erase it performs, then the lines it prints
UpdateErase(len, hadSpinner) == IF ~hadSpinner /\ len > 0 THEN len + 1 ELSE 0
UpdatePrints(len) == 1 + len

\* this.clearDisplay() inside a handler that settles
ClearDisplay ==
  /\ drawn' = DrawnAfterErase(drawn, ClearErase(Len(outputBuffer)))
  /\ foreignErased' = (foreignErased \/ ErasesForeign(drawn, ClearErase(Len(outputBuffer))))
  /\ outputBuffer' = <<>>

(***************************************************************************)
(* checkCompletion, called with the flags as the calling handler has just  *)
(* set them.                                                               *)
(***************************************************************************)
\* Mutant: the timer is left armed
ClearTimeout_Forgot(t) == t

\* clearTimeout(overallTimeout): a timer that has not fired yet never will
ClearTimeout(t) == IF t = "armed" THEN "cleared" ELSE t

\* Mutants of the readiness test: the resolved guard dropped; the exit alone
CompletionReady_Unguarded(pe, so, se, res) == pe /\ so /\ se
CompletionReady_ExitOnly(pe, so, se, res) == pe /\ ~res

CompletionReady(pe, so, se, res) == pe /\ so /\ se /\ ~res

ClearsOnCompletion(show) == ~show

\* Mutant: only a zero exit code counts as success
IsSuccessCode_ZeroOnly(code) == code = 0

IsSuccessCode(code) == code = 0 \/ code = NULL

checkCompletion(pe, so, se, code) ==
  IF CompletionReady(pe, so, se, resolved)
  THEN /\ resolved' = TRUE
       /\ overallTimeout' = ClearTimeout(overallTimeout)
       /\ IF ClearsOnCompletion(showOutput)
          THEN ClearDisplay
          ELSE UNCHANGED <<outputBuffer, drawn, foreignErased>>
       /\ IF IsSuccessCode(code)
          THEN Settle("Succeeded", NoRejection,
                      <<"clearTimeout">>
                      \o (IF ClearsOnCompletion(showOutput) THEN <<"clearDisplay">> ELSE <<>>)
                      \o <<"resolve">>)
          ELSE Settle("Failed", CommandFailedError(code, outputBuffer'),
                      <<"clearTimeout">>
                      \o (IF ClearsOnCompletion(showOutput) THEN <<"clearDisplay">> ELSE <<>>)
                      \o <<"reject">>)
  ELSE UNCHANGED <<resolved, overallTimeout, outputBuffer, drawn, foreignErased, promise>>

(***************************************************************************)
(* What lies outside the executor, before anything of it has run.          *)
(***************************************************************************)
Calls == {1, 2}

\* The closure, timers, promise and child of an executeWithStreaming call
\* that has not been made
IdleCall ==
  [pc |-> "idle", resolved |-> FALSE, hasOutput |-> FALSE,
   stdoutEnded |-> FALSE, stderrEnded |-> FALSE, processExited |-> FALSE,
   exitCode |-> NULL, overallTimeout |-> "none", graceTimer |-> "none",
   outcome |-> "NotStarted", rejection |-> NoRejection,
   childAlive |-> FALSE, stdoutOpen |-> FALSE, stderrOpen |-> FALSE,
   errorPending |-> "none", chunks |-> 0]

PairIdle ==
  /\ executorOf = [c \in Calls |-> 0]
  /\ heap = <<>>
  /\ calls = [c \in Calls |-> IdleCall]
  /\ screen = FALSE
  /\ actor = 0

Projects == 1..MaxProjects

\* No prune command has been run
PruneIdle ==
  /\ pruneMode = "none" /\ prunePc = "idle"
  /\ disk = {} /\ ageDays = [p \in Projects |-> 0]
  /\ listed = <<>> /\ answers = <<>>
  /\ pruneIndex = 1
  /\ attempts = <<>> /\ results = <<>>
  /\ deletedCount = 0 /\ errorCount = 0

\* run() has not been called
FlowIdle ==
  /\ flowPc = "idle" /\ flowLog = <<>> /\ failures = {}
  /\ projectExists = FALSE
  /\ dockerInstalled = FALSE /\ dockerRunning = FALSE
  /\ envExample = FALSE /\ envFile = "absent"

\* No stream is being delivered
FeedIdle == stream = <<>> /\ cut = 0 /\ fed = 0

\* The value of a catch variable whose catch block has not been entered
NoError == [isError |-> FALSE, message |-> "none"]

\* cloneRepository has not been called
CloneIdle ==
  /\ clonePc = <<"idle", "none", "none">> /\ cloneLog = <<>> /\ targetExists = FALSE
  /\ firstError = NoError /\ fallbackError = NoError /\ cloneThrown = <<>>

\* No readiness poll has been started
PollIdle ==
  /\ pollKind = "none" /\ pollPc = "idle"
  /\ pollNow = 0 /\ pollStart = 0 /\ probes = 0 /\ probeOk = FALSE

UtilsIdle == FeedIdle /\ CloneIdle /\ PollIdle

OutsideIdle == PairIdle /\ PruneIdle /\ FlowIdle /\ UtilsIdle

(***************************************************************************)
(* Initial state: execute() has run its synchronous part: the buffer is    *)
(* reset, the child is spawned (or the spawn failed and an 'error' is to   *)
(* be emitted), the overall timeout is armed, the handlers are attached.   *)
(***************************************************************************)
Started ==
  /\ command \in Commands
  /\ args \in ArgLists
  /\ \E mode \in {"plain", "silent", "spinner"} :
       /\ showOutput = (mode # "silent")
       /\ currentSpinner = (mode = "spinner")
       /\ spinner = IF mode = "spinner" THEN "spinning" ELSE "none"
       /\ wrapperPc = IF mode = "spinner" THEN "awaiting" ELSE "none"
  /\ optMaxLines = 0
  /\ spinnerCalls = 0
  /\ thrown = NoRejection
  /\ execNo = 1
  /\ prevOpen = FALSE /\ prevShowOutput = FALSE
  /\ prevHasOutput = FALSE /\ prevLastDisplayUpdate = 0
  /\ maxLines \in 1..MaxLinesBound
  /\ outputBuffer = <<>>
  /\ hasOutput = FALSE
  /\ resolved = FALSE
  /\ lastDisplayUpdate = 0
  /\ \E spawn \in {"ok", "failed", "failedNoPipes"} :
       /\ spawned = (spawn = "ok")
       /\ childAlive = (spawn = "ok")
       /\ errorPending = IF spawn = "ok" THEN "none" ELSE "ENOENT"
       /\ stdoutOpen = (spawn # "failedNoPipes")
       /\ stderrOpen = (spawn # "failedNoPipes")
       /\ stdoutEnded = (spawn = "failedNoPipes")
       /\ stderrEnded = (spawn = "failedNoPipes")
  /\ processExited = FALSE
  /\ exitCode = NULL
  /\ now = StartTime
  /\ overallTimeout = "armed"
  /\ overallDeadline = StartTime + OVERALL_TIMEOUT_MS
  /\ graceTimer = "none"
  /\ graceDeadline = 0
  /\ outcome = "Running"
  /\ settleCount = 0
  /\ rejection = NoRejection
  /\ trace = <<>>
  /\ drawn = 0
  /\ foreignErased = FALSE
  /\ redraws = 0
  /\ sigterm = "none"
  /\ chunks = 0
  /\ added = <<>>

\* The execution the specifications Spec and FairSpec follow
Init == Started /\ OutsideIdle

(***************************************************************************)
(* The callbacks.                                                          *)
(***************************************************************************)
\* child.kill(): SIGTERM is sent to a live child.  The child may die of it,
\* may have it blocked or handled, or the signal may fail to be sent, which
\* Node reports with an 'error' event.  On a child that is gone it does nothing.
Kill ==
  IF childAlive
  THEN \E k \in {"pending", "ignored", "failed"} :
         /\ sigterm' = k
         /\ errorPending' = IF k = "failed" THEN "EPERM" ELSE errorPending
  ELSE UNCHANGED <<sigterm, errorPending>>

\* Mutant: the throttle window is half as long
ThrottleOpen_HalfWindow(t, last) == 2 * (t - last) >= DISPLAY_THROTTLE_MS

\* The throttle test of processOutput
ThrottleOpen(t, last) == t - last >= DISPLAY_THROTTLE_MS

\* The condition under which processOutput looks at the clock at all
\* Mutant: live updates are shown whether or not a spinner is active
WantsDisplay_IgnoresSpinner(show, out, spin) == show /\ out

WantsDisplay(show, out, spin) == show /\ out /\ ~spin

\* const processOutput = (data, isError) => {...}
processOutput(data) ==
  LET lines == ChunkLines(data)
      buf == addAll(outputBuffer, lines, maxLines)
      out == hasOutput \/ lines # <<>>
      redraw == WantsDisplay(showOutput, out, currentSpinner)
                /\ ThrottleOpen(now, lastDisplayUpdate)
      n == UpdateErase(Len(buf), currentSpinner)
  IN  /\ outputBuffer' = buf
      /\ hasOutput' = out
      /\ IF redraw
         THEN /\ drawn' = DrawnAfterErase(drawn, n) + UpdatePrints(Len(buf))
              /\ foreignErased' = (foreignErased \/ ErasesForeign(drawn, n))
              /\ redraws' = redraws + 1
              /\ lastDisplayUpdate' = now
         ELSE UNCHANGED <<drawn, foreignErased, redraws, lastDisplayUpdate>>

\* child.stdout.on('data', ...)
StdoutData ==
  /\ spawned /\ stdoutOpen /\ chunks < MaxChunks
  /\ \E data \in Chunks : processOutput(data)
  /\ chunks' = chunks + 1
  /\ UNCHANGED <<added, outside, wrapper, earlier, request, maxLines, currentSpinner, resolved, stdoutEnded, stderrEnded,
                 processExited, exitCode, timers, promise,
                 now, spawned, childAlive, sigterm, errorPending, stdoutOpen, stderrOpen>>

\* child.stderr.on('data', ...)
StderrData ==
  /\ spawned /\ stderrOpen /\ chunks < MaxChunks
  /\ \E data \in Chunks : processOutput(data)
  /\ chunks' = chunks + 1
  /\ UNCHANGED <<added, outside, wrapper, earlier, request, maxLines, currentSpinner, resolved, stdoutEnded, stderrEnded,
                 processExited, exitCode, timers, promise,
                 now, spawned, childAlive, sigterm, errorPending, stdoutOpen, stderrOpen>>

\* Mutant: the end of stdout sets the flag and leaves the check to the others
StdoutEnd_NoCheck ==
  /\ stdoutOpen
  /\ stdoutOpen' = FALSE
  /\ stdoutEnded' = TRUE
  /\ UNCHANGED <<resolved, overallTimeout, outputBuffer, drawn, foreignErased, promise>>
  /\ UNCHANGED <<added, outside, wrapper, earlier, request, maxLines, currentSpinner, hasOutput, lastDisplayUpdate,
                 stderrEnded, processExited, exitCode,
                 overallDeadline, graceTimer, graceDeadline, redraws,
                 now, spawned, childAlive, sigterm, errorPending, stderrOpen, chunks>>

\* child.stdout.on('end', ...)
StdoutEnd ==
  /\ stdoutOpen
  /\ stdoutOpen' = FALSE
  /\ stdoutEnded' = TRUE
  /\ checkCompletion(processExited, TRUE, stderrEnded, exitCode)
  /\ UNCHANGED <<added, outside, wrapper, earlier, request, maxLines, currentSpinner, hasOutput, lastDisplayUpdate,
                 stderrEnded, processExited, exitCode,
                 overallDeadline, graceTimer, graceDeadline, redraws,
                 now, spawned, childAlive, sigterm, errorPending, stderrOpen, chunks>>

\* child.stderr.on('end', ...)
StderrEnd ==
  /\ stderrOpen
  /\ stderrOpen' = FALSE
  /\ stderrEnded' = TRUE
  /\ checkCompletion(processExited, stdoutEnded, TRUE, exitCode)
  /\ UNCHANGED <<added, outside, wrapper, earlier, request, maxLines, currentSpinner, hasOutput, lastDisplayUpdate,
                 stdoutEnded, processExited, exitCode,
                 overallDeadline, graceTimer, graceDeadline, redraws,
                 now, spawned, childAlive, sigterm, errorPending, stdoutOpen, chunks>>

\* Mutant of the exit handler: it cancels the overall timeout, the process
\* being over, and sets no grace timer
onExit_CancelsTimeout(code) ==
  /\ processExited' = TRUE
  /\ exitCode' = code
  /\ IF CompletionReady(TRUE, stdoutEnded, stderrEnded, resolved)
     THEN checkCompletion(TRUE, stdoutEnded, stderrEnded, code)
     ELSE /\ overallTimeout' = ClearTimeout(overallTimeout)
          /\ UNCHANGED <<resolved, outputBuffer, drawn, foreignErased, promise>>
  /\ UNCHANGED <<added, outside, wrapper, earlier, request, maxLines, currentSpinner, hasOutput, lastDisplayUpdate,
                 stdoutEnded, stderrEnded, overallDeadline, graceTimer, graceDeadline,
                 redraws, now, spawned, sigterm, errorPending, stdoutOpen, stderrOpen,
                 chunks>>

\* child.on('exit', (code) => {...}): the flags, the grace timer, the check
onExit(code) ==
  /\ processExited' = TRUE
  /\ exitCode' = code
  /\ graceTimer' = "armed"
  /\ graceDeadline' = now + GRACE_MS
  /\ checkCompletion(TRUE, stdoutEnded, stderrEnded, code)
  /\ UNCHANGED <<added, outside, wrapper, earlier, request, maxLines, currentSpinner, hasOutput, lastDisplayUpdate,
                 stdoutEnded, stderrEnded, overallDeadline, redraws,
                 now, spawned, sigterm, errorPending, stdoutOpen, stderrOpen, chunks>>

\* The child ends by itself or by a signal from outside: 'exit' is emitted
ChildExit ==
  /\ childAlive
  /\ childAlive' = FALSE
  /\ \E code \in ExitCodes : onExit(code)

\* The SIGTERM of child.kill() ends the child: 'exit' with a null code
KilledExit ==
  /\ childAlive /\ sigterm = "pending"
  /\ childAlive' = FALSE
  /\ onExit(NULL)

\* Mutant of the forcing: the grace timer leaves the stream flags as they are
ForcedEnd_Keeps(ended) == ended

\* stdoutEnded = true; stderrEnded = true in the grace timer's callback
ForcedEnd(ended) == TRUE

\* setTimeout(() => { if (!resolved) {...} }, 100)
GraceTimerFires ==
  /\ graceTimer = "armed" /\ now >= graceDeadline
  /\ graceTimer' = "fired"
  /\ IF ~resolved
     THEN /\ stdoutEnded' = ForcedEnd(stdoutEnded)
          /\ stderrEnded' = ForcedEnd(stderrEnded)
          /\ checkCompletion(processExited, stdoutEnded', stderrEnded', exitCode)
     ELSE UNCHANGED <<stdoutEnded, stderrEnded, resolved, overallTimeout, outputBuffer,
                      drawn, foreignErased, promise>>
  /\ UNCHANGED <<added, outside, wrapper, earlier, request, maxLines, currentSpinner, hasOutput, lastDisplayUpdate,
                 processExited, exitCode, overallDeadline, graceDeadline, redraws, env>>

\* Mutant: the timeout also stands back once the exit event has been observed
OverallTimeoutFires_SkipsExited ==
  /\ overallTimeout = "armed" /\ now >= overallDeadline
  /\ overallTimeout' = "fired"
  /\ IF ~resolved /\ ~processExited
     THEN /\ resolved' = TRUE
          /\ Kill
          /\ IF showOutput
             THEN ClearDisplay
             ELSE UNCHANGED <<outputBuffer, drawn, foreignErased>>
          /\ Settle("TimedOut", TimeoutError(command, args),
                    <<"kill">> \o (IF showOutput THEN <<"clearDisplay">> ELSE <<>>)
                    \o <<"reject">>)
     ELSE UNCHANGED <<resolved, sigterm, errorPending, outputBuffer, drawn,
                      foreignErased, promise>>
  /\ UNCHANGED <<added, outside, wrapper, earlier, request, maxLines, currentSpinner, hasOutput, lastDisplayUpdate,
                 stdoutEnded, stderrEnded, processExited, exitCode,
                 overallDeadline, graceTimer, graceDeadline, redraws,
                 now, spawned, childAlive, stdoutOpen, stderrOpen, chunks>>

\* const overallTimeout = setTimeout(() => { if (!resolved) {...} }, 30000)
OverallTimeoutFires ==
  /\ overallTimeout = "armed" /\ now >= overallDeadline
  /\ overallTimeout' = "fired"
  /\ IF ~resolved
     THEN /\ resolved' = TRUE
          /\ Kill
          /\ IF showOutput
             THEN ClearDisplay
             ELSE UNCHANGED <<outputBuffer, drawn, foreignErased>>
          /\ Settle("TimedOut", TimeoutError(command, args),
                    <<"kill">> \o (IF showOutput THEN <<"clearDisplay">> ELSE <<>>)
                    \o <<"reject">>)
     ELSE UNCHANGED <<resolved, sigterm, errorPending, outputBuffer, drawn,
                      foreignErased, promise>>
  /\ UNCHANGED <<added, outside, wrapper, earlier, request, maxLines, currentSpinner, hasOutput, lastDisplayUpdate,
                 stdoutEnded, stderrEnded, processExited, exitCode,
                 overallDeadline, graceTimer, graceDeadline, redraws,
                 now, spawned, childAlive, stdoutOpen, stderrOpen, chunks>>

\* child.on('error', (error) => {...})
ErrorEvent ==
  /\ errorPending # "none"
  /\ errorPending' = "none"
  /\ IF resolved
     THEN UNCHANGED <<resolved, overallTimeout, outputBuffer, drawn, foreignErased, promise>>
     ELSE /\ resolved' = TRUE
          /\ overallTimeout' = ClearTimeout(overallTimeout)
          /\ IF showOutput
             THEN ClearDisplay
             ELSE UNCHANGED <<outputBuffer, drawn, foreignErased>>
          /\ Settle("SpawnFailed", SpawnError(errorPending),
                    <<"clearTimeout">> \o (IF showOutput THEN <<"clearDisplay">> ELSE <<>>)
                    \o <<"reject">>)
  /\ UNCHANGED <<added, outside, wrapper, earlier, request, maxLines, currentSpinner, hasOutput, lastDisplayUpdate,
                 stdoutEnded, stderrEnded, processExited, exitCode,
                 overallDeadline, graceTimer, graceDeadline, redraws,
                 now, spawned, childAlive, sigterm, stdoutOpen, stderrOpen, chunks>>

(***************************************************************************)
(* Time.  A timer's callback runs no earlier than its deadline, and the    *)
(* clock does not pass the deadline of an armed timer before the callback  *)
(* has run.  The clock is observed at each threshold the code compares it  *)
(* with (the deadlines of the armed timers, the end of the throttle        *)
(* window) and TickMs before it.                                           *)
(***************************************************************************)
ArmedDeadlines ==
  (IF overallTimeout = "armed" THEN {overallDeadline} ELSE {})
  \cup (IF graceTimer = "armed" THEN {graceDeadline} ELSE {})

Thresholds ==
  ArmedDeadlines
  \cup (IF lastDisplayUpdate > 0 THEN {lastDisplayUpdate + DISPLAY_THROTTLE_MS} ELSE {})

Instants ==
  {t \in Thresholds \cup {d - TickMs : d \in Thresholds} :
     t > now /\ \A d \in ArmedDeadlines : t <= d}

Advance ==
  /\ \E t \in Instants : now' = t
  /\ UNCHANGED <<added, outside, wrapper, earlier, request, instance, locals, timers, promise, terminal,
                 spawned, childAlive, sigterm, errorPending, stdoutOpen, stderrOpen, chunks>>

Next ==
  \/ StdoutData
  \/ StderrData
  \/ StdoutEnd
  \/ StderrEnd
  \/ ChildExit
  \/ KilledExit
  \/ GraceTimerFires
  \/ OverallTimeoutFires
  \/ ErrorEvent
  \/ Advance

Spec == Init /\ [][Next]_vars

(***************************************************************************)
(* The same execution under the scheduling the event loop guarantees: a    *)
(* timer whose deadline has come has its callback run, the clock goes on,  *)
(* an emitted 'error' is delivered, and a child that SIGTERM kills dies.   *)
(* Nothing is assumed about the child exiting by itself or about its       *)
(* streams ending.                                                         *)
(***************************************************************************)
FairSpec ==
  /\ Init /\ [][Next]_vars
  /\ WF_vars(GraceTimerFires)
  /\ WF_vars(OverallTimeoutFires)
  /\ WF_vars(Advance)
  /\ WF_vars(ErrorEvent)
  /\ WF_vars(KilledExit)

TerminalStates == {"Succeeded", "Failed", "TimedOut", "SpawnFailed"}

\* The outcome the completion check gives for an exit code
OutcomeOfCode(code) == IF code = 0 \/ code = NULL THEN "Succeeded" ELSE "Failed"

\* Number of resolve and reject calls recorded in the trace
SettleCalls(t) == Cardinality({i \in 1..Len(t) : t[i] \in {"resolve", "reject"}})

(***************************************************************************)
(* C1: execute settles its promise at most once, whatever the order of     *)
(* the exit, stream-end, grace-timer, timeout and 'error' events: the      *)
(* resolve/reject bodies run at most once in total, and a terminal         *)
(* outcome, once reached, is never changed by a later event.               *)
(***************************************************************************)
C1_SettlesAtMostOnce ==
  /\ [](settleCount <= 1 /\ SettleCalls(trace) = settleCount
        /\ (outcome \in TerminalStates <=> settleCount = 1)
        /\ (resolved <=> settleCount = 1))
  /\ [][(outcome \in TerminalStates) =>
          (outcome' = outcome /\ rejection' = rejection /\ trace' = trace)]_vars

\* Every event has been delivered after the execution had timed out
C1_Witness ==
  /\ outcome = "TimedOut"
  /\ processExited /\ graceTimer = "fired"
  /\ ~stdoutOpen /\ ~stderrOpen
  /\ stdoutEnded /\ stderrEnded
  /\ sigterm = "failed" /\ errorPending = "none"

(***************************************************************************)
(* C2: resolve() and the command-failed reject are called only when the    *)
(* exit event has been observed and both stream flags are set (the stream  *)
(* ended, never existed, or the grace timer forced the flag); only the     *)
(* timeout and the spawn-error rejections settle without all three.        *)
(***************************************************************************)
C2_CompletionNeedsAllThree ==
  [][(outcome = "Running" /\ outcome' # "Running") =>
       (\/ outcome' \in {"TimedOut", "SpawnFailed"}
        \/ /\ outcome' \in {"Succeeded", "Failed"}
           /\ processExited' /\ stdoutEnded' /\ stderrEnded'
           /\ (stdoutOpen' => graceTimer' = "fired")
           /\ (stderrOpen' => graceTimer' = "fired"))]_vars

\* Completed by the natural end of both streams, the grace timer still pending
C2_Witness ==
  /\ outcome = "Failed"
  /\ graceTimer = "armed"
  /\ spawned /\ ~stdoutOpen /\ ~stderrOpen

(***************************************************************************)
(* C3 as claimed: once the exit event has been observed on an execution    *)
(* that has not settled, the execution settles according to the recorded   *)
(* exit code (the grace timer standing in for stream ends that never       *)
(* come), never through the 30 s overall timeout.  Only exits observed     *)
(* strictly before the deadline of the overall timeout are counted.        *)
(***************************************************************************)
C3_ExitThenSettlesByCode ==
  [][(processExited /\ graceDeadline - GRACE_MS < overallDeadline
      /\ ~resolved /\ resolved') =>
       outcome' = OutcomeOfCode(exitCode)]_vars

(***************************************************************************)
(* C3 as amended: the grace timer is set for 100 ms after the exit event;  *)
(* an execution whose exit has been observed is unsettled no later than    *)
(* that deadline; when the grace timer fires on an unsettled execution it  *)
(* forces both stream flags and the execution settles by the recorded exit *)
(* code; the only other way such an execution settles is the overall       *)
(* timeout, when its deadline falls inside the grace period.               *)
(***************************************************************************)
C3_GraceForcesCompletion ==
  /\ []((processExited /\ ~resolved) =>
          (graceTimer = "armed" /\ now <= graceDeadline))
  /\ [][(~processExited /\ processExited') => graceDeadline' = now + GRACE_MS]_vars
  /\ [][(graceTimer = "armed" /\ graceTimer' = "fired" /\ ~resolved) =>
          (/\ stdoutEnded' /\ stderrEnded' /\ resolved'
           /\ outcome' = OutcomeOfCode(exitCode))]_vars
  /\ [][(processExited /\ ~resolved /\ resolved') =>
          (\/ outcome' = OutcomeOfCode(exitCode)
           \/ /\ outcome' = "TimedOut"
              /\ overallDeadline <= graceDeadline
              /\ now >= overallDeadline)]_vars

\* A clean exit, stdout never ends, the grace timer has completed the execution
\* long before the overall timeout
C3_Witness ==
  /\ outcome = "Succeeded" /\ exitCode = 0
  /\ graceTimer = "fired"
  /\ stdoutOpen /\ ~stderrOpen
  /\ now < overallDeadline

(***************************************************************************)
(* C4: when the completion check rejects for a non-zero exit code k, the   *)
(* error carries k and every line the output buffer held when the          *)
(* completion was detected, in buffer order, for either value of           *)
(* showOutput.                                                             *)
(***************************************************************************)
C4_FailureCarriesOutput ==
  [][(outcome = "Running" /\ outcome' = "Failed") =>
       (/\ rejection'.kind = "failed"
        /\ rejection'.exitCode = exitCode' /\ exitCode' \notin {0, NULL}
        /\ rejection'.output = outputBuffer)]_vars

(***************************************************************************)
(* C5: when the overall timeout fires on an execution that has not         *)
(* settled, child.kill() is called before reject, and the error names the  *)
(* bound of the timer in seconds and the command line: the command, a      *)
(* space, and the arguments with one space between neighbours.             *)
(***************************************************************************)
C5_TimeoutKillsThenRejects ==
  [][(overallTimeout = "armed" /\ overallTimeout' = "fired" /\ ~resolved) =>
       LET did == SubSeq(trace', Len(trace) + 1, Len(trace'))
           line == rejection'.cmdline
       IN  /\ \E i, j \in 1..Len(did) : i < j /\ did[i] = "kill" /\ did[j] = "reject"
           /\ childAlive => sigterm' \in {"pending", "ignored", "failed"}
           /\ outcome' = "TimedOut"
           /\ rejection'.kind = "timeout"
           /\ rejection'.seconds * 1000 = OVERALL_TIMEOUT_MS
           /\ Len(line) = 2 + (IF args = <<>> THEN 0 ELSE 2 * Len(args) - 1)
           /\ line[1] = command /\ line[2] = " "
           /\ \A k \in 1..Len(args) : line[2 * k + 1] = args[k]
           /\ \A k \in 1..(Len(args) - 1) : line[2 * k + 2] = " "]_vars

\* Timed out with arguments in the request and the signal on its way
C5_Witness ==
  /\ outcome = "TimedOut" /\ args # <<>>
  /\ sigterm = "pending" /\ childAlive

(***************************************************************************)
(* C6: when the child emits 'error' before the execution has settled, the  *)
(* handler rejects with that very error at once, whatever the exit and     *)
(* stream flags and the timers are, and it cancels the overall timeout.    *)
(***************************************************************************)
C6_ErrorRejectsImmediately ==
  [][(errorPending # "none" /\ errorPending' = "none" /\ ~resolved) =>
       (/\ resolved'
        /\ outcome' = "SpawnFailed"
        /\ rejection'.kind = "error" /\ rejection'.cause = errorPending
        /\ overallTimeout' = "cleared")]_vars

\* Rejected at the start: no exit, no stream end, no timer has fired
C6_Witness ==
  /\ outcome = "SpawnFailed" /\ rejection.cause = "ENOENT"
  /\ ~processExited /\ stdoutOpen /\ stderrOpen
  /\ graceTimer = "none" /\ overallTimeout = "cleared"
  /\ now = StartTime

(***************************************************************************)
(* C8: once the execution has settled through the completion check or      *)
(* through a spawn error, the overall timeout is cancelled and does        *)
(* nothing: its callback never runs, no kill is sent, the display is not   *)
(* cleared by it and nothing is rejected.                                  *)
(***************************************************************************)
C8_TimeoutNoOpAfterSettle ==
  /\ []((outcome \in {"Succeeded", "Failed", "SpawnFailed"}) => overallTimeout = "cleared")
  /\ [][(outcome \in {"Succeeded", "Failed", "SpawnFailed"}) =>
          (/\ overallTimeout' = overallTimeout
           /\ sigterm' = sigterm
           /\ trace' = trace
           /\ settleCount' = settleCount
           /\ outcome' = outcome)]_vars

\* Completed, and the clock has reached the deadline of the cancelled timeout
C8_Witness ==
  /\ outcome = "Succeeded"
  /\ overallTimeout = "cleared"
  /\ now >= overallDeadline

(***************************************************************************)
(* C7: every execution that starts Running eventually reaches a terminal   *)
(* state and stays in it, settled exactly once, provided the timers fire:  *)
(* whatever exit and stream-end events the child delivers, in whatever     *)
(* order, the promise is settled in the end.                               *)
(***************************************************************************)
C7_EventuallySettled ==
  <>[](outcome \in TerminalStates /\ settleCount = 1)

\* Settled although the child delivered no event at all
C7_Witness ==
  /\ outcome = "TimedOut"
  /\ ~processExited /\ stdoutOpen /\ stderrOpen
  /\ sigterm = "ignored"

(***************************************************************************)
(* C9: after execute has rejected with the timeout error the child         *)
(* process is eventually no longer running: the kill of the timeout        *)
(* handler always ends the process.                                        *)
(***************************************************************************)
C9_TimedOutChildTerminates ==
  (outcome = "TimedOut") ~> ~childAlive

(***************************************************************************)
(* The output buffer alone: a constructed executor whose addToBuffer is    *)
(* called with one line after another; added records the lines.            *)
(***************************************************************************)
BufLines == {<<"x">>, <<"y">>}

BufInit ==
  /\ maxLines \in 1..MaxLinesBound
  /\ outputBuffer = <<>>
  /\ added = <<>>
  /\ currentSpinner = FALSE
  /\ command \in Commands /\ args = <<>> /\ showOutput = TRUE
  /\ optMaxLines = 0
  /\ spinner = "none" /\ spinnerCalls = 0 /\ wrapperPc = "none"
  /\ thrown = NoRejection
  /\ execNo = 0
  /\ prevOpen = FALSE /\ prevShowOutput = FALSE
  /\ prevHasOutput = FALSE /\ prevLastDisplayUpdate = 0
  /\ OutsideIdle
  /\ hasOutput = FALSE /\ resolved = FALSE /\ lastDisplayUpdate = 0
  /\ stdoutEnded = FALSE /\ stderrEnded = FALSE
  /\ processExited = FALSE /\ exitCode = NULL
  /\ overallTimeout = "none" /\ overallDeadline = 0
  /\ graceTimer = "none" /\ graceDeadline = 0
  /\ outcome = "NotStarted" /\ settleCount = 0
  /\ rejection = NoRejection /\ trace = <<>>
  /\ drawn = 0 /\ foreignErased = FALSE /\ redraws = 0
  /\ now = StartTime /\ spawned = FALSE /\ childAlive = FALSE
  /\ sigterm = "none" /\ errorPending = "none"
  /\ stdoutOpen = FALSE /\ stderrOpen = FALSE /\ chunks = 0

\* this.addToBuffer(line)
AddLine ==
  /\ Len(added) < MaxAdds
  /\ \E line \in BufLines :
       /\ outputBuffer' = addToBuffer(outputBuffer, line, maxLines)
       /\ added' = Append(added, line)
  /\ UNCHANGED <<outside, wrapper, earlier, request, maxLines, currentSpinner, locals, timers,
                 promise, terminal, env>>

BufNext == AddLine

SpecBuffer == BufInit /\ [][BufNext]_vars

LastN(s, n) == SubSeq(s, Len(s) - n + 1, Len(s))

(***************************************************************************)
(* C10: after every addToBuffer call the buffer holds at most maxLines     *)
(* lines, and after n calls it is the last min(n, maxLines) lines added,   *)
(* in the order they were added: a line added to a full buffer evicts      *)
(* exactly the oldest one.                                                 *)
(***************************************************************************)
C10_BufferIsLastLines ==
  /\ Len(outputBuffer) <= maxLines
  /\ outputBuffer = LastN(added, Min(Len(added), maxLines))

\* Lines have been evicted from a buffer of more than one line
C10_Witness ==
  /\ maxLines >= 2
  /\ Len(added) >= maxLines + 2
  /\ added[1] # added[Len(added)]

(***************************************************************************)
(* C11: the outcome the completion check chooses depends on the recorded   *)
(* exit code alone: it resolves with no value for 0 and for null (the      *)
(* child was ended by a signal), and rejects with the command-failed error *)
(* for every other code; a child killed from outside counts as a success.  *)
(***************************************************************************)
C11_OutcomeByExitCode ==
  [][(outcome = "Running" /\ outcome' \in {"Succeeded", "Failed"}) =>
       (/\ processExited'
        /\ (outcome' = "Succeeded") <=> (exitCode' \in {0, NULL})
        /\ (outcome' = "Succeeded") => (rejection' = NoRejection)
        /\ (outcome' = "Failed") =>
             (rejection'.kind = "failed" /\ rejection'.exitCode = exitCode'))]_vars

\* The child was ended by a signal nobody in the executor sent: success
C11_Witness ==
  /\ outcome = "Succeeded"
  /\ processExited /\ exitCode = NULL
  /\ sigterm = "none" /\ overallTimeout = "cleared"

\* The three signals of a spawned child: exit and the end of both streams
AllArrived == processExited /\ ~stdoutOpen /\ ~stderrOpen

(***************************************************************************)
(* C12: with no timeout and no spawn error, whichever of process-exit,     *)
(* stdout-end and stderr-end arrives last, the execution settles in that   *)
(* very step with the outcome of the exit code, and not before unless the  *)
(* grace timer forced it; a completion check made after the settlement     *)
(* (by a late signal or by the grace timer) changes nothing.               *)
(***************************************************************************)
C12_LastSignalSettles ==
  /\ [][(spawned /\ ~AllArrived /\ AllArrived' /\ ~resolved) =>
          (/\ resolved'
           /\ outcome' = (IF exitCode' \in {0, NULL} THEN "Succeeded" ELSE "Failed"))]_vars
  /\ [][(outcome = "Running" /\ outcome' \in {"Succeeded", "Failed"}) =>
          (AllArrived' \/ graceTimer' = "fired")]_vars
  /\ [][(outcome \in {"Succeeded", "Failed"}) =>
          (/\ outcome' = outcome /\ rejection' = rejection
           /\ settleCount' = settleCount /\ trace' = trace
           /\ resolved')]_vars

\* Settled by the three signals; the grace timer ran its check afterwards
C12_Witness ==
  /\ outcome = "Failed" /\ exitCode = 2
  /\ AllArrived /\ graceTimer = "fired"
  /\ now = StartTime + GRACE_MS
  /\ settleCount = 1

\* The effects a step has added to the trace
Did == SubSeq(trace', Len(trace) + 1, Len(trace'))

\* In the effects of a step, clearDisplay comes before the settling call
ClearsBefore(call) ==
  \E i, j \in 1..Len(Did) : i < j /\ Did[i] = "clearDisplay" /\ Did[j] = call

(***************************************************************************)
(* C13: when an execution with showOutput true and no spinner completes    *)
(* successfully, clearDisplay runs before resolve: none of the lines the   *)
(* executor has drawn is left on the terminal.                             *)
(***************************************************************************)
C13_ClearedBeforeResolve ==
  [][(outcome = "Running" /\ outcome' = "Succeeded"
      /\ showOutput /\ ~currentSpinner /\ drawn > 0) =>
       (ClearsBefore("resolve") /\ drawn' = 0)]_vars

(***************************************************************************)
(* C14: for each kind of rejection (command failed, timeout, spawn error), *)
(* when showOutput is true and a region has been drawn, clearDisplay runs  *)
(* before reject: no execution rejects with its region still drawn.        *)
(***************************************************************************)
C14_ClearedBeforeReject ==
  [][(outcome = "Running" /\ outcome' \in {"Failed", "TimedOut", "SpawnFailed"}
      /\ showOutput /\ drawn > 0) =>
       (ClearsBefore("reject") /\ drawn' = 0)]_vars

(***************************************************************************)
(* C15: with showOutput true and no spinner, two consecutive redraws of    *)
(* one execution are at least 100 ms apart on the clock the code reads,    *)
(* however many chunks arrive in between; the first redraw is not held     *)
(* back.                                                                   *)
(***************************************************************************)
C15_RedrawsThrottled ==
  /\ [][(redraws' # redraws) =>
          (/\ redraws' = redraws + 1
           /\ showOutput /\ ~currentSpinner
           /\ (redraws >= 1 => now - lastDisplayUpdate >= DISPLAY_THROTTLE_MS)
           /\ lastDisplayUpdate' = now)]_vars
  /\ [](redraws >= 1 => (lastDisplayUpdate >= StartTime /\ lastDisplayUpdate <= now))
  /\ [](redraws * DISPLAY_THROTTLE_MS <= now - StartTime + DISPLAY_THROTTLE_MS)

\* A chunk was held back by the throttle, a later one was drawn
C15_Witness ==
  /\ redraws = 1 /\ chunks = 2
  /\ showOutput /\ ~currentSpinner
  /\ lastDisplayUpdate = StartTime
  /\ now < StartTime + DISPLAY_THROTTLE_MS
  /\ Len(outputBuffer) = 2

(***************************************************************************)
(* Calls made on a constructed executor.                                   *)
(***************************************************************************)
\* new StreamingExecutor(maxLines): nothing has been called yet
Constructed ==
  /\ command \in Commands /\ args \in ArgLists
  /\ maxLines \in 1..MaxLinesBound
  /\ outputBuffer = <<>> /\ currentSpinner = FALSE
  /\ showOutput = TRUE /\ optMaxLines = 0
  /\ hasOutput = FALSE /\ resolved = FALSE /\ lastDisplayUpdate = 0
  /\ stdoutEnded = FALSE /\ stderrEnded = FALSE
  /\ processExited = FALSE /\ exitCode = NULL
  /\ overallTimeout = "none" /\ overallDeadline = 0
  /\ graceTimer = "none" /\ graceDeadline = 0
  /\ outcome = "NotStarted" /\ settleCount = 0
  /\ rejection = NoRejection /\ trace = <<>>
  /\ drawn = 0 /\ foreignErased = FALSE /\ redraws = 0
  /\ now = StartTime /\ spawned = FALSE /\ childAlive = FALSE
  /\ sigterm = "none" /\ errorPending = "none"
  /\ stdoutOpen = FALSE /\ stderrOpen = FALSE /\ chunks = 0
  /\ added = <<>>
  /\ execNo = 0
  /\ prevOpen = FALSE /\ prevShowOutput = FALSE
  /\ prevHasOutput = FALSE /\ prevLastDisplayUpdate = 0

\* The synchronous part of execute(command, args, options): the options are
\* destructured (cwd and showOutput only), the buffer is emptied, the child is
\* spawned, the locals are initialised, the overall timeout is armed and the
\* handlers are attached.  The promise, its effects and the count of redraws
\* are those of the new call.
execute(show, opt) ==
  /\ showOutput' = show
  /\ optMaxLines' = opt
  /\ outputBuffer' = <<>>
  /\ hasOutput' = FALSE
  /\ resolved' = FALSE
  /\ lastDisplayUpdate' = 0
  /\ \E spawn \in {"ok", "failed", "failedNoPipes"} :
       /\ spawned' = (spawn = "ok")
       /\ childAlive' = (spawn = "ok")
       /\ errorPending' = IF spawn = "ok" THEN "none" ELSE "ENOENT"
       /\ stdoutOpen' = (spawn # "failedNoPipes")
       /\ stderrOpen' = (spawn # "failedNoPipes")
       /\ stdoutEnded' = (spawn = "failedNoPipes")
       /\ stderrEnded' = (spawn = "failedNoPipes")
  /\ processExited' = FALSE
  /\ exitCode' = NULL
  /\ overallTimeout' = "armed"
  /\ overallDeadline' = now + OVERALL_TIMEOUT_MS
  /\ graceTimer' = "none"
  /\ graceDeadline' = 0
  /\ outcome' = "Running"
  /\ settleCount' = 0
  /\ rejection' = NoRejection
  /\ trace' = <<>>
  /\ redraws' = 0
  /\ sigterm' = "none"
  /\ execNo' = execNo + 1
  /\ UNCHANGED <<command, args, maxLines, currentSpinner, drawn, foreignErased,
                 now, chunks, added, outside>>

(***************************************************************************)
(* executeWithSpinner(command, args, spinnerText, options), as called by   *)
(* executeWithStreaming on a fresh executor.                               *)
(***************************************************************************)
SpinInit ==
  /\ Constructed
  /\ OutsideIdle
  /\ spinner = "none" /\ spinnerCalls = 0
  /\ wrapperPc = "called"
  /\ thrown = NoRejection

\* const spinner = ora(spinnerText).start(); this.currentSpinner = spinner;
StartSpinner ==
  /\ wrapperPc = "called"
  /\ spinner' = "spinning"
  /\ currentSpinner' = TRUE
  /\ wrapperPc' = "started"
  /\ UNCHANGED <<spinnerCalls, thrown, request, outputBuffer, maxLines, locals, timers,
                 promise, terminal, env, added, earlier, outside>>

\* await this.execute(command, args, { ...options, showOutput: true })
SpinnerExecute ==
  /\ wrapperPc = "started"
  /\ execute(TRUE, optMaxLines)
  /\ wrapperPc' = "awaiting"
  /\ UNCHANGED <<spinner, spinnerCalls, thrown, prevOpen, prevShowOutput,
                 prevHasOutput, prevLastDisplayUpdate>>

\* Mutant: the spinner is marked as succeeded whatever execute did
AfterExecute_SucceedsAnyway ==
  /\ wrapperPc = "awaiting"
  /\ outcome \in TerminalStates
  /\ spinner' = "succeeded"
  /\ wrapperPc' = IF outcome = "Succeeded" THEN "returned" ELSE "threw"
  /\ thrown' = rejection
  /\ spinnerCalls' = spinnerCalls + 1
  /\ currentSpinner' = FALSE
  /\ UNCHANGED <<request, outputBuffer, maxLines, locals, timers, promise, terminal,
                 env, added, earlier, outside>>

\* Mutant: the finally block is missing, the field is reset on success only
AfterExecute_KeepsSpinnerOnThrow ==
  /\ wrapperPc = "awaiting"
  /\ outcome \in TerminalStates
  /\ IF outcome = "Succeeded"
     THEN /\ spinner' = "succeeded"
          /\ wrapperPc' = "returned"
          /\ thrown' = NoRejection
     ELSE /\ spinner' = "failed"
          /\ wrapperPc' = "threw"
          /\ thrown' = rejection
  /\ spinnerCalls' = spinnerCalls + 1
  /\ currentSpinner' = (outcome # "Succeeded")
  /\ UNCHANGED <<request, outputBuffer, maxLines, locals, timers, promise, terminal,
                 env, added, earlier, outside>>

\* The continuation of the await: spinner.succeed(spinnerText) on resolution;
\* on rejection spinner.fail(...) and throw error; finally currentSpinner = null
AfterExecute ==
  /\ wrapperPc = "awaiting"
  /\ outcome \in TerminalStates
  /\ IF outcome = "Succeeded"
     THEN /\ spinner' = "succeeded"
          /\ wrapperPc' = "returned"
          /\ thrown' = NoRejection
     ELSE /\ spinner' = "failed"
          /\ wrapperPc' = "threw"
          /\ thrown' = rejection
  /\ spinnerCalls' = spinnerCalls + 1
  /\ currentSpinner' = FALSE
  /\ UNCHANGED <<request, outputBuffer, maxLines, locals, timers, promise, terminal,
                 env, added, earlier, outside>>

\* The callbacks of the execution, from the moment execute() has returned its
\* promise; they stay attached after the wrapper has finished
SpinnerCallbacks ==
  /\ wrapperPc \in {"awaiting", "returned", "threw"}
  /\ Next

SpinNext ==
  \/ StartSpinner
  \/ SpinnerExecute
  \/ AfterExecute
  \/ SpinnerCallbacks

SpecSpinner == SpinInit /\ [][SpinNext]_vars

\* A data event was handled in this step
ChunkHandled == chunks' = chunks + 1

(***************************************************************************)
(* C16 (as stated): while a spinner is active the throttle is bypassed:    *)
(* every chunk that changes the buffer is followed at once by a display    *)
(* update, whatever time has passed since the previous one.                *)
(***************************************************************************)
C16_SpinnerBypassesThrottle ==
  [][(currentSpinner /\ ChunkHandled /\ outputBuffer' # outputBuffer) =>
       (redraws' = redraws + 1)]_vars

(***************************************************************************)
(* C16 (amended): while a spinner is active a chunk only updates the       *)
(* buffer: no display update is made, at once or later, the terminal       *)
(* region and the time of the last update stay as they were, and the       *)
(* throttle plays no part.                                                 *)
(***************************************************************************)
C16_SpinnerSuppressesRedraw ==
  [][(currentSpinner /\ ChunkHandled) =>
       (/\ redraws' = redraws
        /\ drawn' = drawn
        /\ lastDisplayUpdate' = lastDisplayUpdate
        /\ \E data \in Chunks :
             outputBuffer' = addAll(outputBuffer, ChunkLines(data), maxLines))]_vars

\* Two chunks with lines came in under the spinner, more than 100 ms apart
C16_Witness ==
  /\ currentSpinner /\ wrapperPc = "awaiting"
  /\ chunks = 2 /\ Len(outputBuffer) = 2
  /\ now >= StartTime + DISPLAY_THROTTLE_MS
  /\ redraws = 0 /\ lastDisplayUpdate = 0

(***************************************************************************)
(* C17: the two display modes exclude each other within an execution:      *)
(* while currentSpinner is set execute never calls updateDisplay, so the   *)
(* spinner line and the streaming region are never both drawn for one      *)
(* execution.                                                              *)
(***************************************************************************)
C17_DisplayModesExclusive ==
  /\ [][currentSpinner => (redraws' = redraws)]_vars
  /\ [](spinner # "none" => (redraws = 0 /\ drawn = 0))

(***************************************************************************)
(* C18: executeWithSpinner starts the spinner before execute spawns the    *)
(* child; once execute has settled it calls exactly one of succeed and     *)
(* fail, once: succeed exactly when execute resolved, and then it returns; *)
(* fail exactly when execute rejected, and then it throws the error        *)
(* execute rejected with.                                                  *)
(***************************************************************************)
C18_SpinnerFollowsOutcome ==
  /\ [][(execNo' # execNo) => (spinner = "spinning" /\ currentSpinner /\ ~spawned)]_vars
  /\ [][(spinnerCalls' # spinnerCalls) =>
          (/\ wrapperPc = "awaiting" /\ outcome \in TerminalStates
           /\ spinner = "spinning" /\ spinnerCalls = 0)]_vars
  /\ [](spinnerCalls = (IF spinner \in {"succeeded", "failed"} THEN 1 ELSE 0))
  /\ []((spinner = "succeeded") <=> (wrapperPc = "returned"))
  /\ []((spinner = "failed") <=> (wrapperPc = "threw"))
  /\ [](wrapperPc = "returned" => (outcome = "Succeeded" /\ thrown = NoRejection))
  /\ [](wrapperPc = "threw" =>
          (/\ outcome \in {"Failed", "TimedOut", "SpawnFailed"}
           /\ thrown = rejection /\ thrown # NoRejection))

\* The wrapper has failed the spinner and thrown the timeout error of execute
C18_Witness ==
  /\ spinner = "failed" /\ wrapperPc = "threw"
  /\ outcome = "TimedOut" /\ thrown.kind = "timeout"
  /\ spinnerCalls = 1 /\ ~currentSpinner

(***************************************************************************)
(* execute(command, args, options) with options.maxLines, on an executor   *)
(* constructed with maxLines.                                              *)
(***************************************************************************)
OptInit ==
  /\ Constructed
  /\ OutsideIdle
  /\ args = <<>>
  /\ spinner = "none" /\ spinnerCalls = 0
  /\ wrapperPc = "none"
  /\ thrown = NoRejection

\* executor.execute(command, args, { showOutput: show, maxLines: opt })
OptExecute ==
  /\ outcome = "NotStarted"
  /\ \E show \in BOOLEAN, opt \in 0..MaxLinesBound : execute(show, opt)
  /\ UNCHANGED <<wrapper, prevOpen, prevShowOutput, prevHasOutput, prevLastDisplayUpdate>>

OptCallbacks ==
  /\ outcome # "NotStarted"
  /\ Next

OptNext ==
  \/ OptExecute
  \/ OptCallbacks

SpecOptions == OptInit /\ [][OptNext]_vars

\* The capacity a request asks for: options.maxLines, by default 10
RequestedLines == IF optMaxLines = 0 THEN DEFAULT_MAX_LINES ELSE optMaxLines

(***************************************************************************)
(* C19: the capacity of the buffer during an execution is the maxLines     *)
(* value of that execution's options (10 when omitted): the buffer never   *)
(* holds more lines than that, and a redraw shows the command line and at  *)
(* most that many output lines.                                            *)
(***************************************************************************)
C19_CapacityFromOptions ==
  /\ Len(outputBuffer) <= RequestedLines
  /\ drawn <= 1 + RequestedLines

(***************************************************************************)
(* A second execute() on the same executor, called after the first has     *)
(* settled.  Of the first call only its data handlers can still act on the *)
(* instance and the terminal: its other callbacks find resolved true and   *)
(* change nothing but the locals of their own closure.                     *)
(***************************************************************************)
\* What the child of the earlier call writes after that call has settled
PrevChunks == {<<"o", "\n">>}

ReuseInit ==
  /\ Constructed
  /\ OutsideIdle
  /\ args = <<>>
  /\ spinner = "none" /\ spinnerCalls = 0
  /\ wrapperPc = "none"
  /\ thrown = NoRejection

\* await executor.execute(command, args, { showOutput: show })
FirstExecute ==
  /\ execNo = 0
  /\ \E show \in BOOLEAN : execute(show, 0)
  /\ UNCHANGED <<wrapper, prevOpen, prevShowOutput, prevHasOutput, prevLastDisplayUpdate>>

\* The next execute() on the same instance, once the promise of the first has
\* settled.  The closure of the first call keeps its own locals; a stream of
\* its child that has not ended stays open.
ExecuteAgain ==
  /\ execNo = 1
  /\ outcome \in TerminalStates
  /\ prevOpen' = (spawned /\ (stdoutOpen \/ stderrOpen))
  /\ prevShowOutput' = showOutput
  /\ prevHasOutput' = hasOutput
  /\ prevLastDisplayUpdate' = lastDisplayUpdate
  /\ \E show \in BOOLEAN : execute(show, 0)
  /\ UNCHANGED wrapper

\* The callbacks of the call in progress; once the first call has settled the
\* caller's continuation makes the second call before any other event
ReuseCallbacks ==
  /\ \/ execNo = 1 /\ outcome = "Running"
     \/ execNo = 2
  /\ Next

\* 'data' on a stream of the earlier child: processOutput of the earlier call,
\* with that call's showOutput, hasOutput and lastDisplayUpdate, on the buffer
\* and the terminal that the instance shares
PrevData ==
  /\ execNo = 2 /\ prevOpen /\ chunks < MaxChunks
  /\ \E data \in PrevChunks :
       LET lines == ChunkLines(data)
           buf == addAll(outputBuffer, lines, maxLines)
           out == prevHasOutput \/ lines # <<>>
           redraw == WantsDisplay(prevShowOutput, out, currentSpinner)
                     /\ ThrottleOpen(now, prevLastDisplayUpdate)
           n == UpdateErase(Len(buf), currentSpinner)
       IN  /\ outputBuffer' = buf
           /\ prevHasOutput' = out
           /\ IF redraw
              THEN /\ drawn' = DrawnAfterErase(drawn, n) + UpdatePrints(Len(buf))
                   /\ foreignErased' = (foreignErased \/ ErasesForeign(drawn, n))
                   /\ redraws' = redraws + 1
                   /\ prevLastDisplayUpdate' = now
              ELSE UNCHANGED <<drawn, foreignErased, redraws, prevLastDisplayUpdate>>
  /\ chunks' = chunks + 1
  /\ UNCHANGED <<added, outside, wrapper, request, maxLines, currentSpinner, locals, timers, promise,
                 now, spawned, childAlive, sigterm, errorPending, stdoutOpen, stderrOpen,
                 execNo, prevOpen, prevShowOutput>>

\* The streams of the earlier child end
PrevEnd ==
  /\ execNo = 2 /\ prevOpen
  /\ prevOpen' = FALSE
  /\ UNCHANGED <<added, outside, wrapper, request, instance, locals, timers, promise, terminal, env,
                 execNo, prevShowOutput, prevHasOutput, prevLastDisplayUpdate>>

ReuseNext ==
  \/ FirstExecute
  \/ ExecuteAgain
  \/ ReuseCallbacks
  \/ PrevData
  \/ PrevEnd

SpecReuse == ReuseInit /\ [][ReuseNext]_vars

\* The line was written by the child of the earlier call
FromEarlier(line) == \E i \in 1..Len(line) : line[i] = "o"

HasEarlierLine(ls) == \E i \in 1..Len(ls) : FromEarlier(ls[i])

(***************************************************************************)
(* C20: when one executor runs several executions one after another, each  *)
(* started after the previous one settled, the buffer is empty at the      *)
(* start of each execute, and the buffer, the display and the failure      *)
(* message of the later execution never hold a line that the process of    *)
(* the earlier execution produced.                                         *)
(***************************************************************************)
C20_NoLinesOfEarlierExecution ==
  /\ [][(execNo' # execNo) => (outputBuffer' = <<>>)]_vars
  /\ [](execNo = 2 => ~HasEarlierLine(outputBuffer))
  /\ [](execNo = 2 => ~HasEarlierLine(rejection.output))
  /\ [][(execNo = 2 /\ redraws' # redraws) => ~HasEarlierLine(outputBuffer')]_vars

(***************************************************************************)
(* Two overlapping executeWithStreaming calls.  Each call is the code of   *)
(* executeWithSpinner and execute with showOutput true, on the executor    *)
(* the call has constructed; the fields of the executors live in heap.     *)
(* The clock is left out: a timer fires at some moment while it is armed,  *)
(* and the throttle is open or closed as the moment of the chunk decides.  *)
(***************************************************************************)
\* An executor with nothing called on it, on the only request of this family
ExecutorIdle ==
  /\ Constructed
  /\ args = <<>> /\ maxLines = 1
  /\ spinner = "none" /\ spinnerCalls = 0
  /\ wrapperPc = "none"
  /\ thrown = NoRejection

PairInit == ExecutorIdle /\ OutsideIdle

\* The output of the child of call c
PairChunk(c) == IF c = 1 THEN <<"x", "\n">> ELSE <<"y", "\n">>

\* Mutant: one executor at module level serves every call
NewExecutor_Shared(h) == 1

\* const executor = new StreamingExecutor(): a new object on the heap
NewExecutor(h) == Len(h) + 1

\* Fields v written to the object id
HeapPut(h, id, v) ==
  [i \in 1..Max(Len(h), id) |-> IF i = id THEN v ELSE h[i]]

\* checkCompletion() of a call whose closure is r, on a buffer buf; showOutput
\* is true, so the display is not cleared here
PairCheck(r, buf) ==
  IF CompletionReady(r.processExited, r.stdoutEnded, r.stderrEnded, r.resolved)
  THEN [r EXCEPT !.resolved = TRUE,
                 !.overallTimeout = ClearTimeout(@),
                 !.outcome = IF IsSuccessCode(r.exitCode) THEN "Succeeded" ELSE "Failed",
                 !.rejection = IF IsSuccessCode(r.exitCode) THEN NoRejection
                               ELSE CommandFailedError(r.exitCode, buf)]
  ELSE r

\* The buffer of the executor of call c
BufferOf(c) == heap[executorOf[c]].outputBuffer

\* executeWithStreaming(command, args, spinnerText): the executor is
\* constructed, the spinner started and stored, execute() empties the buffer,
\* spawns the child, arms the timeout and returns its promise
executeWithStreaming(c) ==
  /\ calls[c].pc = "idle"
  /\ LET id == NewExecutor(heap)
     IN  /\ executorOf' = [executorOf EXCEPT ![c] = id]
         /\ heap' = HeapPut(heap, id, [outputBuffer |-> <<>>, currentSpinner |-> TRUE])
  /\ \E ok \in BOOLEAN :
       calls' = [calls EXCEPT ![c] =
                   [IdleCall EXCEPT !.pc = "awaiting", !.outcome = "Running",
                                    !.overallTimeout = "armed",
                                    !.childAlive = ok,
                                    !.stdoutOpen = TRUE, !.stderrOpen = TRUE,
                                    !.errorPending = IF ok THEN "none" ELSE "ENOENT"]]
  /\ actor' = c
  /\ UNCHANGED <<screen, notPair>>

\* 'data' on a stream of the child of call c: processOutput
PairData(c) ==
  /\ calls[c].childAlive \/ calls[c].processExited
  /\ calls[c].stdoutOpen \/ calls[c].stderrOpen
  /\ calls[c].chunks < MaxPairChunks
  /\ LET id == executorOf[c]
         lines == ChunkLines(PairChunk(c))
         buf == addAll(heap[id].outputBuffer, lines, DEFAULT_MAX_LINES)
         out == calls[c].hasOutput \/ lines # <<>>
     IN  /\ heap' = [heap EXCEPT ![id].outputBuffer = buf]
         /\ calls' = [calls EXCEPT ![c].hasOutput = out, ![c].chunks = @ + 1]
         /\ \E open \in BOOLEAN :
              screen' = (screen \/ (WantsDisplay(TRUE, out, heap[id].currentSpinner) /\ open))
  /\ actor' = c
  /\ UNCHANGED <<executorOf, notPair>>

\* 'end' of stdout of call c
PairStdoutEnd(c) ==
  /\ calls[c].stdoutOpen
  /\ calls' = [calls EXCEPT ![c] =
                 PairCheck([calls[c] EXCEPT !.stdoutOpen = FALSE, !.stdoutEnded = TRUE],
                           BufferOf(c))]
  /\ actor' = c
  /\ UNCHANGED <<executorOf, heap, screen, notPair>>

\* 'end' of stderr of call c
PairStderrEnd(c) ==
  /\ calls[c].stderrOpen
  /\ calls' = [calls EXCEPT ![c] =
                 PairCheck([calls[c] EXCEPT !.stderrOpen = FALSE, !.stderrEnded = TRUE],
                           BufferOf(c))]
  /\ actor' = c
  /\ UNCHANGED <<executorOf, heap, screen, notPair>>

\* 'exit' of the child of call c: the code is recorded, the grace timer set
PairExit(c) ==
  /\ calls[c].childAlive
  /\ \E code \in ExitCodes :
       calls' = [calls EXCEPT ![c] =
                   PairCheck([calls[c] EXCEPT !.childAlive = FALSE,
                                              !.processExited = TRUE,
                                              !.exitCode = code,
                                              !.graceTimer = "armed"],
                             BufferOf(c))]
  /\ actor' = c
  /\ UNCHANGED <<executorOf, heap, screen, notPair>>

\* The grace timer of call c
PairGrace(c) ==
  /\ calls[c].graceTimer = "armed"
  /\ calls' = [calls EXCEPT ![c] =
                 IF calls[c].resolved
                 THEN [calls[c] EXCEPT !.graceTimer = "fired"]
                 ELSE PairCheck([calls[c] EXCEPT !.graceTimer = "fired",
                                                 !.stdoutEnded = TRUE,
                                                 !.stderrEnded = TRUE],
                                BufferOf(c))]
  /\ actor' = c
  /\ UNCHANGED <<executorOf, heap, screen, notPair>>

\* this.clearDisplay() of the executor of call c
PairClearDisplay(c) ==
  /\ heap' = [heap EXCEPT ![executorOf[c]].outputBuffer = <<>>]
  /\ screen' = (screen /\ BufferOf(c) = <<>>)

\* The overall timeout of call c: kill, clearDisplay, reject
PairTimeout(c) ==
  /\ calls[c].overallTimeout = "armed"
  /\ IF calls[c].resolved
     THEN /\ calls' = [calls EXCEPT ![c].overallTimeout = "fired"]
          /\ UNCHANGED <<heap, screen>>
     ELSE /\ calls' = [calls EXCEPT ![c].overallTimeout = "fired",
                                    ![c].resolved = TRUE,
                                    ![c].outcome = "TimedOut",
                                    ![c].rejection = TimeoutError(command, args)]
          /\ PairClearDisplay(c)
  /\ actor' = c
  /\ UNCHANGED <<executorOf, notPair>>

\* 'error' of the child of call c
PairError(c) ==
  /\ calls[c].errorPending # "none"
  /\ IF calls[c].resolved
     THEN /\ calls' = [calls EXCEPT ![c].errorPending = "none"]
          /\ UNCHANGED <<heap, screen>>
     ELSE /\ calls' = [calls EXCEPT ![c].errorPending = "none",
                                    ![c].resolved = TRUE,
                                    ![c].overallTimeout = ClearTimeout(@),
                                    ![c].outcome = "SpawnFailed",
                                    ![c].rejection = SpawnError(calls[c].errorPending)]
          /\ PairClearDisplay(c)
  /\ actor' = c
  /\ UNCHANGED <<executorOf, notPair>>

\* The continuation of executeWithSpinner of call c: succeed or fail and
\* rethrow; finally this.currentSpinner = null
PairAfter(c) ==
  /\ calls[c].pc = "awaiting"
  /\ calls[c].outcome \in TerminalStates
  /\ calls' = [calls EXCEPT ![c].pc = IF calls[c].outcome = "Succeeded"
                                      THEN "returned" ELSE "threw"]
  /\ heap' = [heap EXCEPT ![executorOf[c]].currentSpinner = FALSE]
  /\ actor' = c
  /\ UNCHANGED <<executorOf, screen, notPair>>

PairNext ==
  \E c \in Calls :
    \/ executeWithStreaming(c)
    \/ PairData(c)
    \/ PairStdoutEnd(c)
    \/ PairStderrEnd(c)
    \/ PairExit(c)
    \/ PairGrace(c)
    \/ PairTimeout(c)
    \/ PairError(c)
    \/ PairAfter(c)

SpecPair == PairInit /\ [][PairNext]_vars

\* Every line of ls was written by the child of call c
OwnLines(c, ls) ==
  LET own == ChunkLines(PairChunk(c))
  IN  \A i \in 1..Len(ls) : \E j \in 1..Len(own) : ls[i] = own[j]

\* The outcome of call c is explained by its own child, timers and flags
OwnOutcome(c) ==
  LET r == calls[c]
  IN  /\ r.outcome \in {"Succeeded", "Failed"} =>
           (/\ r.processExited
            /\ (r.outcome = "Succeeded") <=> (r.exitCode \in {0, NULL})
            /\ (r.stdoutEnded /\ r.stderrEnded))
      /\ r.outcome = "Failed" => r.rejection.exitCode = r.exitCode
      /\ r.outcome = "TimedOut" => r.overallTimeout = "fired"
      /\ r.outcome = "SpawnFailed" => (r.rejection.cause = "ENOENT" /\ ~r.processExited)

(***************************************************************************)
(* C21: two overlapping executeWithStreaming calls run on two distinct     *)
(* executors: code running for one call writes neither the closure (the    *)
(* completion flags among it) of the other call nor the buffer and spinner *)
(* field of the other call's executor; the buffer and failure message of a *)
(* call hold only lines of its own child, and its outcome follows from its *)
(* own child's exit, streams, timers and error.                            *)
(***************************************************************************)
C21_CallsIsolated ==
  /\ [](\A c, d \in Calls :
          (c # d /\ executorOf[c] # 0 /\ executorOf[d] # 0) => executorOf[c] # executorOf[d])
  /\ [][\A c \in Calls :
          (actor' # c) =>
            (/\ calls'[c] = calls[c]
             /\ executorOf'[c] = executorOf[c]
             /\ (executorOf[c] # 0 => heap'[executorOf[c]] = heap[executorOf[c]]))]_vars
  /\ [](\A c \in Calls :
          executorOf[c] # 0 =>
            (/\ OwnLines(c, BufferOf(c))
             /\ OwnLines(c, calls[c].rejection.output)
             /\ OwnOutcome(c)))

\* Both calls in flight with output buffered, then one failed while the other runs
C21_Witness ==
  /\ calls[1].outcome = "Failed" /\ calls[1].rejection.output # <<>>
  /\ calls[2].outcome = "Running" /\ calls[2].hasOutput
  /\ BufferOf(2) # <<>>
  /\ actor = 1

(***************************************************************************)
(* The prune commands (src/src/project-pruner.ts): pruneProjects and       *)
(* pruneAllProjects over the project directories of the base directory.    *)
(* A project is named by its position in the directory listing.            *)
(***************************************************************************)
\* Days since a project directory was last modified
Ages == {3, 14, 20}

RECURSIVE SortRecent(_, _)
\* projects.sort((a, b) => b.lastModified - a.lastModified): most recently
\* modified first, entries of equal time in the order readdirSync gave them
SortRecent(S, age) ==
  IF S = {} THEN <<>>
  ELSE LET m == CHOOSE p \in S :
                  \A q \in S : age[p] < age[q] \/ (age[p] = age[q] /\ p <= q)
       IN  <<m>> \o SortRecent(S \ {m}, age)

\* listExistingProjects(baseDir)
listExistingProjects(d, age) == SortRecent(d, age)

\* project.lastModified < cutoffDate, the cutoff being maxAgeInDays ago
IsOld(a, maxAgeInDays) == a > maxAgeInDays

\* getOldProjects(baseDir, 14)
getOldProjects(d, age) ==
  SelectSeq(listExistingProjects(d, age), LAMBDA p : IsOld(age[p], MAX_AGE_DAYS))

\* What a prompt can return: the confirm prompt yes or no, the text prompt
\* what was typed; a prompt that is cancelled returns an empty object
ConfirmAnswers == {"yes", "no", "cancelled"}
TypedAnswers == {"DELETE ALL", "delete all", "cancelled"}

\* Mutant: only an explicit no stops the command
Confirmed_UnlessNo(a) == a # "no"

\* response.confirmed is truthy
Confirmed(a) == a = "yes"

\* Mutant: the typed confirmation is not compared
TypedDeleteAll_Any(t) == TRUE

\* response2.confirmation === 'DELETE ALL'
TypedDeleteAll(t) == t = "DELETE ALL"

PruneInit ==
  /\ ExecutorIdle /\ PairIdle /\ FlowIdle /\ UtilsIdle
  /\ pruneMode \in {"old", "all"}
  /\ prunePc = "start"
  /\ disk \in SUBSET Projects
  /\ ageDays \in [Projects -> Ages]
  /\ listed = <<>> /\ answers = <<>>
  /\ pruneIndex = 1
  /\ attempts = <<>> /\ results = <<>>
  /\ deletedCount = 0 /\ errorCount = 0

\* The scan at the start of pruneProjects / pruneAllProjects; an empty list
\* ends the command
PruneScan ==
  /\ prunePc = "start"
  /\ listed' = IF pruneMode = "old" THEN getOldProjects(disk, ageDays)
               ELSE listExistingProjects(disk, ageDays)
  /\ prunePc' = IF listed' = <<>> THEN "done" ELSE "confirm"
  /\ UNCHANGED <<pruneMode, disk, ageDays, answers, pruneIndex, attempts, results,
                 deletedCount, errorCount, notPrune>>

\* const response = await prompts({ type: 'confirm', ... })
PruneConfirm ==
  /\ prunePc = "confirm"
  /\ \E a \in ConfirmAnswers :
       /\ answers' = Append(answers, a)
       /\ prunePc' = IF ~Confirmed(a) THEN "done"
                     ELSE IF pruneMode = "all" THEN "confirm2"
                     ELSE "deleting"
  /\ UNCHANGED <<pruneMode, disk, ageDays, listed, pruneIndex, attempts, results,
                 deletedCount, errorCount, notPrune>>

\* const response2 = await prompts({ type: 'text', ... }) of pruneAllProjects
PruneTypeConfirmation ==
  /\ prunePc = "confirm2"
  /\ \E t \in TypedAnswers :
       /\ answers' = Append(answers, t)
       /\ prunePc' = IF TypedDeleteAll(t) THEN "deleting" ELSE "done"
  /\ UNCHANGED <<pruneMode, disk, ageDays, listed, pruneIndex, attempts, results,
                 deletedCount, errorCount, notPrune>>

\* Mutant: the first failure ends the loop
PruneDelete_StopsOnError ==
  /\ prunePc = "deleting"
  /\ LET project == listed[pruneIndex]
     IN  /\ attempts' = Append(attempts, project)
         /\ \E ok \in BOOLEAN :
              /\ results' = Append(results, ok)
              /\ disk' = IF ok THEN disk \ {project} ELSE disk
              /\ deletedCount' = IF ok THEN deletedCount + 1 ELSE deletedCount
              /\ errorCount' = IF ok THEN errorCount ELSE errorCount + 1
              /\ prunePc' = IF pruneIndex = Len(listed) \/ ~ok THEN "done" ELSE "deleting"
  /\ pruneIndex' = pruneIndex + 1
  /\ UNCHANGED <<pruneMode, ageDays, listed, answers, notPrune>>

\* One pass of for (const project of ...): deleteProject (rm -rf) removes the
\* directory or throws; the catch counts the failure and the loop goes on
PruneDelete ==
  /\ prunePc = "deleting"
  /\ LET project == listed[pruneIndex]
     IN  /\ attempts' = Append(attempts, project)
         /\ \E ok \in BOOLEAN :
              /\ results' = Append(results, ok)
              /\ disk' = IF ok THEN disk \ {project} ELSE disk
              /\ deletedCount' = IF ok THEN deletedCount + 1 ELSE deletedCount
              /\ errorCount' = IF ok THEN errorCount ELSE errorCount + 1
  /\ pruneIndex' = pruneIndex + 1
  /\ prunePc' = IF pruneIndex = Len(listed) THEN "done" ELSE "deleting"
  /\ UNCHANGED <<pruneMode, ageDays, listed, answers, notPrune>>

PruneNext ==
  \/ PruneScan
  \/ PruneConfirm
  \/ PruneTypeConfirmation
  \/ PruneDelete

SpecPrune == PruneInit /\ [][PruneNext]_vars

\* The confirmations the running command asks for have all been given
AllConfirmed ==
  /\ Len(answers) >= 1 /\ answers[1] = "yes"
  /\ pruneMode = "all" => (Len(answers) = 2 /\ answers[2] = "DELETE ALL")

(***************************************************************************)
(* C22: the prune commands delete nothing without explicit confirmation:   *)
(* deleteProject is called, and a directory disappears, only after the     *)
(* confirm prompt returned true and, for pruneAllProjects, the typed text  *)
(* was exactly DELETE ALL; a declined or cancelled prompt ends the command *)
(* with nothing deleted.                                                   *)
(***************************************************************************)
C22_NoDeleteWithoutConfirmation ==
  /\ [][(attempts' # attempts \/ disk' # disk) => AllConfirmed]_vars
  /\ [](attempts # <<>> => AllConfirmed)
  /\ []((answers # <<>> /\ ~AllConfirmed /\ prunePc # "confirm2") =>
          (prunePc = "done" /\ attempts = <<>> /\ deletedCount = 0))

\* pruneAllProjects has deleted a project after both confirmations
C22_Witness ==
  /\ pruneMode = "all"
  /\ answers = <<"yes", "DELETE ALL">>
  /\ deletedCount >= 1 /\ disk # Projects

(***************************************************************************)
(* C26: a failure to delete one project does not stop the run: deletion is *)
(* attempted once for every listed project, in list order, and at the end  *)
(* deletedCount + errorCount is the number of listed projects.             *)
(***************************************************************************)
C26_EveryProjectAttempted ==
  /\ attempts = SubSeq(listed, 1, Len(attempts))
  /\ deletedCount + errorCount = Len(attempts)
  /\ deletedCount = Cardinality({i \in 1..Len(results) : results[i]})
  /\ (prunePc = "deleting") => (Len(attempts) < Len(listed))
  /\ (prunePc = "done" /\ AllConfirmed) =>
        (attempts = listed /\ deletedCount + errorCount = Len(listed))

\* The first deletion failed, the second was attempted and succeeded
C26_Witness ==
  /\ prunePc = "done"
  /\ Len(listed) >= 2 /\ Len(results) >= 2
  /\ results[1] = FALSE /\ results[2] = TRUE
  /\ errorCount >= 1 /\ deletedCount >= 1

(***************************************************************************)
(* The clone-and-setup workflow, CodegenCloner.run (src/unnamed/part_003). *)
(* flowPc names the step run() is about to execute; "exit1" is the catch   *)
(* block's process.exit(1), "returned" the early return of step 3,         *)
(* "serving" the state after runPnpmDev has started the server.            *)
(***************************************************************************)
Steps == <<"parse", "fetch", "project", "docker", "pnpm", "env", "postgres",
           "install", "seed", "dev">>

\* The steps that follow the Docker step
AfterDocker == {"pnpm", "env", "postgres", "install", "seed", "dev"}

FlowInit ==
  /\ ExecutorIdle /\ PairIdle /\ PruneIdle /\ UtilsIdle
  /\ flowPc = "parse"
  /\ flowLog = <<>> /\ failures = {}
  /\ projectExists \in BOOLEAN
  /\ dockerInstalled \in BOOLEAN /\ dockerRunning \in BOOLEAN
  /\ dockerRunning => dockerInstalled
  /\ envExample = FALSE /\ envFile = "absent"

\* A step inside the try block of run(): it returns and run() goes on to
\* next, or it throws and the catch block exits with code 1
FlowStep(step, next, ok) ==
  /\ flowLog' = Append(flowLog, step)
  /\ flowPc' = IF ok THEN next ELSE "exit1"
  /\ failures' = IF ok THEN failures ELSE failures \cup {step}

\* Step 1: parsePRUrl(prUrl)
FlowParse ==
  /\ flowPc = "parse"
  /\ \E ok \in BOOLEAN : FlowStep("parse", "fetch", ok)
  /\ UNCHANGED <<projectExists, dockerInstalled, dockerRunning, envExample, envFile, notFlow>>

\* Step 2: fetchPRBranch(prInfo)
FlowFetchBranch ==
  /\ flowPc = "fetch"
  /\ \E ok \in BOOLEAN : FlowStep("fetch", "project", ok)
  /\ UNCHANGED <<projectExists, dockerInstalled, dockerRunning, envExample, envFile, notFlow>>

\* Steps 3 and 4: an existing directory that is no git repository ends the
\* run; an existing repository is pulled if need be, a missing one is cloned.
\* The working tree that results may hold a .env.example and a .env.
FlowProject ==
  /\ flowPc = "project"
  /\ \/ /\ projectExists
        /\ flowLog' = Append(flowLog, "project")
        /\ flowPc' = "returned"
        /\ UNCHANGED <<failures, projectExists, envExample, envFile>>
     \/ /\ FlowStep("project", "docker", FALSE)
        /\ UNCHANGED <<projectExists, envExample, envFile>>
     \/ /\ FlowStep("project", "docker", TRUE)
        /\ projectExists' = TRUE
        /\ envExample' \in BOOLEAN
        /\ envFile' \in {"absent", "user"}
  /\ UNCHANGED <<dockerInstalled, dockerRunning, notFlow>>

\* Step 5: ensureDockerReady().  A failed installation and a failed start are
\* caught inside: the spinner fails and ensureDockerReady returns.
ensureDockerReady ==
  /\ flowPc = "docker"
  /\ flowLog' = Append(flowLog, "docker")
  /\ \E installOk, startOk \in BOOLEAN :
       IF ~dockerInstalled /\ ~installOk
       THEN /\ failures' = failures \cup {"docker"}
            /\ UNCHANGED <<dockerInstalled, dockerRunning>>
       ELSE /\ dockerInstalled' = TRUE
            /\ IF ~dockerRunning /\ ~startOk
               THEN /\ failures' = failures \cup {"docker"}
                    /\ UNCHANGED dockerRunning
               ELSE /\ dockerRunning' = TRUE
                    /\ UNCHANGED failures
  /\ flowPc' = "pnpm"
  /\ UNCHANGED <<projectExists, envExample, envFile, notFlow>>

\* Step 6: ensurePnpmReady(); installPnpm may throw
ensurePnpmReady ==
  /\ flowPc = "pnpm"
  /\ \E ok \in BOOLEAN : FlowStep("pnpm", "env", ok)
  /\ UNCHANGED <<projectExists, dockerInstalled, dockerRunning, envExample, envFile, notFlow>>

\* Mutant: the example is copied whenever it exists
ShouldCopyEnv_WheneverExample(example, file) == example

\* existsSync(envExamplePath) and !existsSync(envPath)
ShouldCopyEnv(example, file) == example /\ file = "absent"

\* Step 7: setupEnvironmentFile(projectPath); the cp may fail
setupEnvironmentFile ==
  /\ flowPc = "env"
  /\ IF ShouldCopyEnv(envExample, envFile)
     THEN \E ok \in BOOLEAN :
            /\ FlowStep("env", "postgres", ok)
            /\ envFile' = IF ok THEN "example" ELSE envFile
     ELSE /\ FlowStep("env", "postgres", TRUE)
          /\ UNCHANGED envFile
  /\ UNCHANGED <<projectExists, dockerInstalled, dockerRunning, envExample, notFlow>>

\* Step 8: ensurePostgresReady(projectPath)
ensurePostgresReady ==
  /\ flowPc = "postgres"
  /\ \E ok \in BOOLEAN : FlowStep("postgres", "install", ok)
  /\ UNCHANGED <<projectExists, dockerInstalled, dockerRunning, envExample, envFile, notFlow>>

\* Step 9: runPnpmInstall(projectPath)
FlowInstall ==
  /\ flowPc = "install"
  /\ \E ok \in BOOLEAN : FlowStep("install", "seed", ok)
  /\ UNCHANGED <<projectExists, dockerInstalled, dockerRunning, envExample, envFile, notFlow>>

\* Mutant: a failing seed is handled like any other failing step
FlowSeed_Aborts ==
  /\ flowPc = "seed"
  /\ \E ok \in BOOLEAN : FlowStep("seed", "dev", ok)
  /\ UNCHANGED <<projectExists, dockerInstalled, dockerRunning, envExample, envFile, notFlow>>

\* Step 10: runPnpmSeed(projectPath) in its own try/catch: a failure is
\* reported with spinner.warn and run() goes on
FlowSeed ==
  /\ flowPc = "seed"
  /\ flowLog' = Append(flowLog, "seed")
  /\ \E ok \in BOOLEAN : failures' = IF ok THEN failures ELSE failures \cup {"seed"}
  /\ flowPc' = "dev"
  /\ UNCHANGED <<projectExists, dockerInstalled, dockerRunning, envExample, envFile, notFlow>>

\* Step 11: runPnpmDev(projectPath)
FlowDev ==
  /\ flowPc = "dev"
  /\ \E ok \in BOOLEAN : FlowStep("dev", "serving", ok)
  /\ UNCHANGED <<projectExists, dockerInstalled, dockerRunning, envExample, envFile, notFlow>>

FlowNext ==
  \/ FlowParse
  \/ FlowFetchBranch
  \/ FlowProject
  \/ ensureDockerReady
  \/ ensurePnpmReady
  \/ setupEnvironmentFile
  \/ ensurePostgresReady
  \/ FlowInstall
  \/ FlowSeed
  \/ FlowDev

SpecFlow == FlowInit /\ [][FlowNext]_vars

\* The step has been executed
Executed(step) == \E i \in 1..Len(flowLog) : flowLog[i] = step

(***************************************************************************)
(* C23: the environment-file step never overwrites an existing .env: it    *)
(* copies .env.example to .env only when .env.example exists and .env does *)
(* not; when .env exists or .env.example is missing it leaves the files    *)
(* as they are.  No step after the checkout touches the two files.         *)
(***************************************************************************)
C23_EnvFileNeverOverwritten ==
  /\ [][(flowPc = "env") =>
          (/\ envExample' = envExample
           /\ IF envExample /\ envFile = "absent"
              THEN envFile' \in {"example", "absent"}
              ELSE envFile' = envFile)]_vars
  /\ [][(flowPc \notin {"project", "env"}) =>
          (envExample' = envExample /\ envFile' = envFile)]_vars
  /\ [](envFile = "example" => (envExample /\ Executed("env")))

\* The step ran on a project that has both files: the user's .env is kept
C23_Witness ==
  /\ Executed("env")
  /\ envExample /\ envFile = "user"
  /\ flowPc = "postgres"

(***************************************************************************)
(* C24: the workflow ensures Docker is installed and running before it     *)
(* goes on: the steps after the Docker step are executed only if Docker is *)
(* installed and running at the end of that step; a failed installation or *)
(* a failed start stops the workflow.                                      *)
(***************************************************************************)
C24_DockerReadyBeforeLaterSteps ==
  /\ \A step \in AfterDocker : Executed(step) => (dockerInstalled /\ dockerRunning)
  /\ ("docker" \in failures) => (flowPc \notin AfterDocker \cup {"serving"})

(***************************************************************************)
(* C25: the seed step is optional: when runPnpmSeed fails the workflow     *)
(* goes on and starts the development server; a failure thrown by any      *)
(* other step (parse, branch fetch, clone/pull, pnpm, env file,            *)
(* PostgreSQL, dependency install) ends the run with exit code 1 and no    *)
(* later step is executed.                                                 *)
(***************************************************************************)
C25_OnlySeedIsOptional ==
  /\ [][(flowPc = "seed") => (flowPc' = "dev")]_vars
  /\ [][(flowPc = "dev") => (Executed("seed") /\ flowLog' = Append(flowLog, "dev"))]_vars
  /\ [](\A step \in {"parse", "fetch", "project", "pnpm", "env", "postgres", "install"} :
          (step \in failures) =>
            (flowPc = "exit1" /\ flowLog[Len(flowLog)] = step))
  /\ [][flowPc \notin {"exit1", "returned", "serving"}]_vars

\* The seed failed and the development server was started all the same
C25_Witness ==
  /\ "seed" \in failures
  /\ flowPc = "serving"
  /\ flowLog[Len(flowLog)] = "dev"

(***************************************************************************)
(* C27: no redraw repeats the buffer state already shown: a redraw is made *)
(* only for a chunk that added at least one line to the buffer, never for  *)
(* a chunk of blank lines only.                                            *)
(***************************************************************************)
C27_RedrawOnlyForNewLines ==
  [][(redraws' # redraws) =>
       (\E data \in Chunks :
          /\ ChunkLines(data) # <<>>
          /\ outputBuffer' = addAll(outputBuffer, ChunkLines(data), maxLines))]_vars

(***************************************************************************)
(* C28: with showOutput true and no spinner every change of the buffer     *)
(* reaches the terminal before the execution settles: when it settles,     *)
(* the region on the screen is the command line and the lines the buffer   *)
(* then holds, also when the last chunk came inside the throttle window    *)
(* and nothing came after it.                                              *)
(***************************************************************************)
C28_BufferShownBeforeSettling ==
  [][(outcome = "Running" /\ outcome' \in TerminalStates
      /\ showOutput /\ ~currentSpinner /\ outputBuffer # <<>>) =>
       (drawn = UpdatePrints(Len(outputBuffer)))]_vars

(***************************************************************************)
(* C29: currentSpinner is set only while an executeWithSpinner call is in  *)
(* flight: it is set before execute starts and it is null again once       *)
(* executeWithSpinner has returned or thrown.                              *)
(***************************************************************************)
C29_SpinnerFieldOnlyInFlight ==
  /\ [](currentSpinner <=> (wrapperPc \in {"started", "awaiting"}))
  /\ [][(execNo' # execNo) => (currentSpinner /\ currentSpinner')]_vars
  /\ [][(wrapperPc' \in {"returned", "threw"}) => ~currentSpinner']_vars

\* executeWithSpinner has thrown the spawn error and the field is null again
C29_Witness ==
  /\ wrapperPc = "threw" /\ outcome = "SpawnFailed"
  /\ thrown.kind = "error"
  /\ ~currentSpinner /\ spinner = "failed"

(***************************************************************************)
(* C30: once an execution has settled (by the completion check, the        *)
(* timeout or a spawn error) it has no further effects: data arriving      *)
(* afterwards neither adds lines to the buffer nor writes to the terminal. *)
(***************************************************************************)
C30_NoEffectsAfterSettling ==
  [][(outcome \in TerminalStates) =>
       (/\ outputBuffer' = outputBuffer
        /\ drawn' = drawn /\ redraws' = redraws
        /\ foreignErased' = foreignErased)]_vars

(***************************************************************************)
(* C31: with showOutput false an execution writes nothing to the terminal, *)
(* whatever its outcome: it makes no redraw, it prints no line and it      *)
(* emits no cursor-up and erase sequence.                                  *)
(***************************************************************************)
C31_SilentWithoutShowOutput ==
  ~showOutput => (redraws = 0 /\ drawn = 0 /\ ~foreignErased)

(***************************************************************************)
(* C32: the executor erases only what it drew: no cursor-up and erase of   *)
(* updateDisplay or clearDisplay covers more lines than the region the     *)
(* same execution has on the screen, so nothing is erased before the       *)
(* first redraw.  Stated for showOutput true, where the completion check   *)
(* makes no erase of its own.                                              *)
(***************************************************************************)
C32_ErasesOnlyOwnLines ==
  showOutput => ~foreignErased

(***************************************************************************)
(* C33: an execution is reported as timed out only if its process was      *)
(* still running when the timeout fired: once the exit event has been      *)
(* observed, the 30 s timer neither rejects with the timeout error nor     *)
(* calls child.kill().                                                     *)
(***************************************************************************)
C33_NoTimeoutAfterExit ==
  [][processExited =>
       (/\ (outcome' = "TimedOut" => outcome = "TimedOut")
        /\ \A i \in 1..Len(Did) : Did[i] # "kill")]_vars

(***************************************************************************)
(* C33 as amended: the timeout stands back only for an execution that has  *)
(* settled.  Every settling handler cancels the timer, so a timer that     *)
(* fires finds the execution unsettled, whether or not the exit event has  *)
(* been observed: it calls child.kill() and rejects with the timeout       *)
(* error; and no other step reports a timeout.                             *)
(***************************************************************************)
C33_TimeoutUnlessSettled ==
  /\ [][(overallTimeout = "armed" /\ overallTimeout' = "fired") =>
          (/\ ~resolved /\ now >= overallDeadline
           /\ outcome' = "TimedOut"
           /\ rejection' = TimeoutError(command, args)
           /\ Did[1] = "kill")]_vars
  /\ [][(outcome' = "TimedOut" /\ outcome # "TimedOut") =>
          (overallTimeout = "armed" /\ overallTimeout' = "fired")]_vars
  /\ [](resolved => overallTimeout # "armed")

\* The child exited TickMs before the deadline, its streams stayed open and
\* the timeout fired before the grace timer: reported as timed out
C33_Witness ==
  /\ outcome = "TimedOut" /\ now = overallDeadline
  /\ processExited /\ exitCode = 0 /\ ~childAlive
  /\ graceTimer = "armed" /\ graceDeadline = overallDeadline - TickMs + GRACE_MS
  /\ sigterm = "none"

(***************************************************************************)
(* The bytes of one child as the pipe delivers them: the child writes      *)
(* stream; the 'data' events carry it whole (cut = Len(stream)) or in two  *)
(* chunks, cut bytes and the rest.  Each chunk goes through processOutput. *)
(***************************************************************************)
Bytes == {"x", " ", "\n"}

Streams == UNION {[1..n -> Bytes] : n \in 1..MaxStreamLen}

\* The chunks of the data events, in order of arrival
ChunksOf(s, c) ==
  IF c = Len(s) THEN <<s>> ELSE <<SubSeq(s, 1, c), SubSeq(s, c + 1, Len(s))>>

FeedInit ==
  /\ Started /\ spawned
  /\ PairIdle /\ PruneIdle /\ FlowIdle /\ CloneIdle /\ PollIdle
  /\ stream \in Streams
  /\ cut \in 1..Len(stream)
  /\ fed = 0

\* child.stdout.on('data', (data) => processOutput(data)) with the next chunk
FeedChunk ==
  /\ fed < Len(ChunksOf(stream, cut))
  /\ processOutput(ChunksOf(stream, cut)[fed + 1])
  /\ fed' = fed + 1
  /\ UNCHANGED <<stream, cut, clone, poll, pair, prune, flow>>
  /\ UNCHANGED <<added, wrapper, earlier, request, maxLines, currentSpinner, resolved,
                 stdoutEnded, stderrEnded, processExited, exitCode, timers, promise,
                 now, spawned, childAlive, sigterm, errorPending, stdoutOpen, stderrOpen,
                 chunks>>

FeedNext == FeedChunk

SpecFeed == FeedInit /\ [][FeedNext]_vars

\* Every chunk of the stream has been delivered
AllFed == fed = Len(ChunksOf(stream, cut))

(***************************************************************************)
(* C34: each non-blank line the process writes becomes exactly one buffer  *)
(* entry, trimmed, in the order written, however the output is split into  *)
(* chunks: once the stream is delivered the buffer holds the lines of the  *)
(* stream, the same for every place of the cut; and no entry is empty or   *)
(* has leading or trailing whitespace.                                     *)
(***************************************************************************)
C34_LinesIndependentOfChunking ==
  /\ AllFed => outputBuffer = addAll(<<>>, ChunkLines(stream), maxLines)
  /\ \A i \in 1..Len(outputBuffer) :
       outputBuffer[i] # <<>> /\ Trim(outputBuffer[i]) = outputBuffer[i]

(***************************************************************************)
(* cloneRepository(prInfo, targetPath): the primary sequence (git clone,   *)
(* git fetch of the PR head, git checkout), and in its catch block the     *)
(* cleanup and the direct clone of the branch.  A command either returns   *)
(* or rejects with an Error; the two errors executeWithStreaming can       *)
(* reject with are told apart.                                             *)
(***************************************************************************)
Branches == {"main", "feature"}
PrNumbers == {"7", "8"}

\* The messages of the errors a git command can fail with
GitErrors == {"Command failed with exit code 128", "Command timed out after 30 seconds"}

\* An Error instance with this message
ErrorOf(msg) == [isError |-> TRUE, message |-> msg]

\* error instanceof Error ? error.message : 'Unknown error'
MessageOf(err) == IF err.isError THEN err.message ELSE "Unknown error"

\* Mutant: the error thrown carries the message of the fallback's error
CloneFailure_OfFallback(error, fallback) ==
  <<"Failed to clone repository: ", MessageOf(fallback)>>

\* new Error(`Failed to clone repository: ${...}`)
CloneFailure(error, fallback) ==
  <<"Failed to clone repository: ", MessageOf(error)>>

CloneInit ==
  /\ ExecutorIdle /\ PairIdle /\ PruneIdle /\ FlowIdle /\ FeedIdle /\ PollIdle
  /\ clonePc \in {<<"clone", b, n>> : b \in Branches, n \in PrNumbers}
  /\ cloneLog = <<>>
  /\ targetExists = FALSE
  /\ firstError = NoError /\ fallbackError = NoError /\ cloneThrown = <<>>

ClonePos == clonePc[1]
CloneBranch == clonePc[2]
ClonePr == clonePc[3]

\* A command of the try block: it returns and the sequence goes on, or it
\* rejects and control passes to the catch block with that error
PrimaryStep(step, cmd, next) ==
  /\ ClonePos = step
  /\ cloneLog' = Append(cloneLog, cmd)
  /\ \/ /\ clonePc' = <<next, CloneBranch, ClonePr>>
        /\ UNCHANGED firstError
     \/ \E msg \in GitErrors :
          /\ clonePc' = <<"cleanup", CloneBranch, ClonePr>>
          /\ firstError' = ErrorOf(msg)
  /\ UNCHANGED <<fallbackError, cloneThrown, notClone>>

\* await executeWithStreaming('git', ['clone', repoUrl, targetPath], ...): a
\* clone that fails may leave a partial directory behind
CloneClone ==
  /\ PrimaryStep("clone", <<"clone">>, "fetch")
  /\ IF ClonePos' = "fetch" THEN targetExists' = TRUE
     ELSE targetExists' \in BOOLEAN

\* await executeWithStreaming('git', ['fetch', 'origin', `pull/${n}/head:${branch}`], ...)
CloneFetch ==
  /\ PrimaryStep("fetch", <<"fetch", ClonePr, CloneBranch>>, "checkout")
  /\ UNCHANGED targetExists

\* await execAsync(`git checkout ${prInfo.branch}`, { cwd: targetPath })
CloneCheckout ==
  /\ PrimaryStep("checkout", <<"checkout", CloneBranch>>, "returned")
  /\ UNCHANGED targetExists

\* await execAsync(`rm -rf "${targetPath}"`).catch(() => {}): a failure of
\* the command is swallowed and the path stays
CloneCleanup ==
  /\ ClonePos = "cleanup"
  /\ cloneLog' = Append(cloneLog, <<"rm">>)
  /\ \/ targetExists' = FALSE
     \/ targetExists' = targetExists
  /\ clonePc' = <<"fallback", CloneBranch, ClonePr>>
  /\ UNCHANGED <<firstError, fallbackError, cloneThrown, notClone>>

\* await executeWithStreaming('git', ['clone', '-b', prInfo.branch, ...]) and
\* the inner catch; git refuses to clone into a path that is still there
CloneFallback ==
  /\ ClonePos = "fallback"
  /\ cloneLog' = Append(cloneLog, <<"clone", "-b", CloneBranch>>)
  /\ \/ /\ ~targetExists
        /\ targetExists' = TRUE
        /\ clonePc' = <<"returned", CloneBranch, ClonePr>>
        /\ UNCHANGED <<fallbackError, cloneThrown>>
     \/ \E msg \in GitErrors :
          /\ targetExists' \in (IF targetExists THEN {TRUE} ELSE BOOLEAN)
          /\ fallbackError' = ErrorOf(msg)
          /\ cloneThrown' = CloneFailure(firstError, ErrorOf(msg))
          /\ clonePc' = <<"threw", CloneBranch, ClonePr>>
  /\ UNCHANGED <<firstError, notClone>>

CloneNext ==
  \/ CloneClone
  \/ CloneFetch
  \/ CloneCheckout
  \/ CloneCleanup
  \/ CloneFallback

SpecClone == CloneInit /\ [][CloneNext]_vars

\* The git clone commands run so far
CloneAttempts == {i \in 1..Len(cloneLog) : cloneLog[i][1] = "clone"}

(***************************************************************************)
(* C35: cloneRepository makes at most two clone attempts: if the primary   *)
(* sequence fails at any step the target path is removed, so that it is    *)
(* gone when the one direct clone of the branch is attempted; the call     *)
(* succeeds if that clone does and otherwise throws 'Failed to clone       *)
(* repository' with the message of the first error.                        *)
(***************************************************************************)
C35_PathRemovedBeforeFallback ==
  /\ Cardinality(CloneAttempts) <= 2
  /\ (ClonePos = "fallback") => ~targetExists
  /\ (ClonePos = "threw") => cloneThrown = CloneFailure(firstError, firstError)

(***************************************************************************)
(* C35 as amended: at most two clone attempts are made; if the primary     *)
(* sequence fails at any step, rm -rf is run on the target path, a failure *)
(* of it is ignored (the path may then still be there), and one direct     *)
(* clone of the branch is attempted; the call returns if the primary       *)
(* sequence or that clone succeeds, and otherwise throws 'Failed to clone  *)
(* repository' with the message of the first error, not the fallback's.    *)
(***************************************************************************)
C35_TwoAttemptsFirstError ==
  /\ [](Cardinality(CloneAttempts) <= 2)
  /\ []((firstError = NoError) <=> (ClonePos \in {"clone", "fetch", "checkout"}
                                    \/ (ClonePos = "returned" /\ fallbackError = NoError
                                        /\ Cardinality(CloneAttempts) = 1)))
  /\ [][(firstError # NoError) => firstError' = firstError]_vars
  /\ [][(ClonePos' = "fallback") =>
          (ClonePos = "cleanup" /\ cloneLog' = Append(cloneLog, <<"rm">>)
           /\ firstError # NoError)]_vars
  /\ []((ClonePos = "fallback") =>
          cloneLog[Len(cloneLog)] = <<"rm">> /\ Cardinality(CloneAttempts) = 1)
  /\ []((ClonePos = "returned" /\ firstError # NoError) =>
          (/\ cloneLog[Len(cloneLog)] = <<"clone", "-b", CloneBranch>>
           /\ fallbackError = NoError /\ cloneThrown = <<>> /\ targetExists))
  /\ []((ClonePos = "threw") =>
          (/\ firstError # NoError /\ fallbackError # NoError
           /\ cloneLog[Len(cloneLog)] = <<"clone", "-b", CloneBranch>>
           /\ cloneThrown = <<"Failed to clone repository: ", firstError.message>>))

\* Both attempts failed, with different errors: the first one's is reported
C35_Witness ==
  /\ ClonePos = "threw"
  /\ Cardinality(CloneAttempts) = 2
  /\ Len(cloneLog) = 5
  /\ firstError.message = "Command failed with exit code 128"
  /\ fallbackError.message = "Command timed out after 30 seconds"
  /\ cloneThrown[2] = "Command failed with exit code 128"

(***************************************************************************)
(* The readiness polls waitForDocker() and waitForPostgres(projectPath),   *)
(* called with their default timeouts.  pollPc is the place in the loop:   *)
(* at the test of the while, at the probe, in the 2 s pause, or how the    *)
(* call ended.  A probe command returns, with success or failure, at once  *)
(* or after MaxProbeMs.                                                    *)
(***************************************************************************)
PollKinds == {"docker", "postgres"}

\* timeoutMs: number = 120000 / timeoutMs: number = 180000
PollTimeout(kind) == IF kind = "docker" THEN DOCKER_TIMEOUT_MS ELSE POSTGRES_TIMEOUT_MS

\* Mutant: the loop goes round without a pause
SleepUntil_NoPause(t) == t

\* await new Promise(resolve => setTimeout(resolve, 2000))
SleepUntil(t) == t + POLL_PAUSE_MS

PollInit ==
  /\ ExecutorIdle /\ PairIdle /\ PruneIdle /\ FlowIdle /\ FeedIdle /\ CloneIdle
  /\ pollKind \in PollKinds
  /\ pollPc = "test"
  /\ pollNow = StartTime /\ pollStart = StartTime
  /\ probes = 0 /\ probeOk = FALSE

\* while (Date.now() - startTime < timeoutMs) {...} throw new Error(...)
PollTest ==
  /\ pollPc = "test"
  /\ pollPc' = IF pollNow - pollStart < PollTimeout(pollKind) THEN "probe" ELSE "threw"
  /\ UNCHANGED <<pollKind, pollNow, pollStart, probes, probeOk, notPoll>>

\* if (await isDockerRunning()) return;  /  try { await execAsync(...pg_isready...);
\* return; } catch {...}
PollProbe ==
  /\ pollPc = "probe" /\ probes < MaxProbes
  /\ probes' = probes + 1
  /\ \E d \in {0, MaxProbeMs} : pollNow' = pollNow + d
  /\ \E ok \in BOOLEAN :
       /\ probeOk' = ok
       /\ pollPc' = IF ok THEN "returned" ELSE "sleep"
  /\ UNCHANGED <<pollKind, pollStart, notPoll>>

\* the pause after a failed probe, then back to the test of the while
PollSleep ==
  /\ pollPc = "sleep"
  /\ pollNow' = SleepUntil(pollNow)
  /\ pollPc' = "test"
  /\ UNCHANGED <<pollKind, pollStart, probes, probeOk, notPoll>>

PollNext ==
  \/ PollTest
  \/ PollProbe
  \/ PollSleep

\* The loop runs on: the test is code, a probe command returns, the timer
\* of the pause fires
SpecPoll ==
  /\ PollInit /\ [][PollNext]_vars
  /\ WF_vars(PollTest)
  /\ WF_vars(PollProbe)
  /\ WF_vars(PollSleep)

PollElapsed == pollNow - pollStart

(***************************************************************************)
(* C36: the readiness polls terminate.  Probes are 2 seconds or more       *)
(* apart, so a poll makes at most timeout / 2 s of them; it returns as     *)
(* soon as a probe succeeds and only then; it throws its timeout error     *)
(* only when the elapsed time has reached the bound (120 s for Docker,     *)
(* 180 s for PostgreSQL) without a successful probe; and every poll        *)
(* eventually returns or throws.                                           *)
(***************************************************************************)
C36_PollsTerminate ==
  /\ <>(pollPc \in {"returned", "threw"})
  /\ [](probes <= PollTimeout(pollKind) \div POLL_PAUSE_MS)
  /\ [](probes > 0 => PollElapsed >= (probes - 1) * POLL_PAUSE_MS)
  /\ []((pollPc = "returned") <=> probeOk)
  /\ []((pollPc = "threw") => (~probeOk /\ PollElapsed >= PollTimeout(pollKind)))
  /\ [][(pollPc = "test" /\ PollElapsed >= PollTimeout(pollKind)) => pollPc' = "threw"]_vars
  /\ [][(pollPc \in {"returned", "threw"}) => UNCHANGED poll]_vars

\* waitForPostgres gave up after 90 failed probes, each answered at once
C36_Witness ==
  /\ pollKind = "postgres" /\ pollPc = "threw"
  /\ probes = POSTGRES_TIMEOUT_MS \div POLL_PAUSE_MS
  /\ PollElapsed = POSTGRES_TIMEOUT_MS
  /\ ~probeOk

====
